---------------------------- MODULE Spec2Model ----------------------------
(***************************************************************************)
(* Taiwan Gray Zone Monitor: the zone index (map.js getZoneForPosition),   *)
(* the vessel ingest (map.js displayVessels) and the snapshot loader       *)
(* (app.js loadData) as state machines.                                    *)
(*                                                                         *)
(* Coordinates are integers in tenths of a degree (25.5 degrees is 255):   *)
(* every coordinate of DRILL_ZONES is a multiple of 0.1, so the            *)
(* comparisons of getZoneForPosition are exact at this resolution.         *)
(***************************************************************************)
EXTENDS Integers, Sequences, FiniteSets, TLC

VARIABLES
    lat, lon, zone,                 \* getZoneForPosition: arguments, result
    vessels,                        \* app.js: let vessels = new Map()
    layerVessels,                   \* map.js: layers.vessels (markers on it)
    vesselMarkers,                  \* map.js: let vesselMarkers = {}
    result, lastBatch, calls,       \* displayVessels: last return value, last argument, calls made
    repeated,                       \* the last call was given the batch of the call before it
    suspiciousData,                 \* app.js: let suspiciousData = null
    dom,                            \* the page elements the loader writes
    fetching, parsing,              \* loadData calls waiting on fetch(), on res.json()
    started, finished, failed,      \* loadData calls made, ended, ended in the catch block
    lastData, lastStrict,           \* the snapshot applied last (and the marker library's mode)
    lastEvent,                      \* what the last step was
    dailyData, sparkline,           \* renderSparkline: its argument, the bars it wrote
    isoStr, now, ago,               \* timeAgo: argument, Date.now(), return value
    seen,                           \* what the last reader of the registry found
    cache,                          \* sw.js: the cache CACHE_NAME, request -> response
    stored,                         \* what the fetch handler has put into the cache
    inflight,                       \* fetch events waiting on the network
    answer,                         \* the fetch event answered last
    fetchEvents, clock,             \* fetch events handled; Date.now() of the page
    charts, liveCharts, created,    \* charts.js: let charts = {}; Chart instances alive, made
    script, pc, ran, staged,        \* run_ais_local: which script, next step, commands run
                                    \* with their exit status, staged diff non-empty
    currentLang, storedLang,        \* i18n: let currentLang; localStorage item 'lang'
    navigatorLang, langCalls        \* navigator.language / userLanguage; toggle and setLang calls

zoneVars == <<lat, lon, zone>>
mapVars == <<vessels, layerVessels, vesselMarkers>>
ingestVars == <<result, lastBatch, calls, repeated>>
pageVars == <<suspiciousData, dom>>
loadVars == <<fetching, parsing, started, finished, failed, lastData, lastStrict, lastEvent>>
renderVars == <<dailyData, sparkline, isoStr, now, ago>>
readVars == <<seen>>
appVars == <<zoneVars, mapVars, ingestVars, pageVars, loadVars, renderVars, readVars>>
swVars == <<cache, stored, inflight, answer, fetchEvents, clock>>
chartVars == <<charts, liveCharts, created>>
pipeVars == <<script, pc, ran, staged>>
langVars == <<currentLang, storedLang, navigatorLang, langCalls>>
sideVars == <<swVars, chartVars, pipeVars, langVars>>
notSwVars == <<appVars, chartVars, pipeVars, langVars>>
notChartVars == <<appVars, swVars, pipeVars, langVars>>
notPipeVars == <<appVars, swVars, chartVars, langVars>>
notLangVars == <<appVars, swVars, chartVars, pipeVars>>
vars == <<appVars, sideVars>>

(***************************************************************************)
(* JavaScript values                                                       *)
(***************************************************************************)
\* a missing numeric field (JS undefined): every comparison with it is false
Undefined == 0 - 1
\* a missing string field (JS undefined), and the JS null
UndefinedStr == "undefined"
Null == "null"
\* JS NaN as a counter value (undefined++ gives NaN)
NaN == 0 - 2

Truthy(s) == s \notin {UndefinedStr, Null, ""}
IsNumber(x) == x \notin {Undefined, NaN}
\* a >= b and a <= b on JS numbers: false when either side is undefined/NaN
Geq(a, b) == IsNumber(a) /\ IsNumber(b) /\ a >= b
Leq(a, b) == IsNumber(a) /\ IsNumber(b) /\ a <= b
\* x++ on a counter: NaN stays NaN
Incr(x) == IF IsNumber(x) THEN x + 1 ELSE NaN

MathMin(a, b) == IF a <= b THEN a ELSE b
MathMax(a, b) == IF a >= b THEN a ELSE b

(***************************************************************************)
(* Zone index                                                              *)
(***************************************************************************)
\* map.js DRILL_ZONES: coords are [lat, lon] corners, in tenths of a degree
DRILL_ZONES ==
    [north |-> [coords |-> << <<255, 1210>>, <<255, 1225>>, <<268, 1225>>, <<268, 1210>> >>],
     east  |-> [coords |-> << <<230, 1225>>, <<230, 1250>>, <<255, 1250>>, <<255, 1225>> >>],
     south |-> [coords |-> << <<215, 1190>>, <<215, 1210>>, <<230, 1210>>, <<230, 1190>> >>],
     west  |-> [coords |-> << <<235, 1185>>, <<235, 1200>>, <<250, 1200>>, <<250, 1185>> >>]]

\* Object.entries(DRILL_ZONES): the keys in insertion order
ZoneOrder == <<"north", "east", "south", "west">>
Zones == {ZoneOrder[i] : i \in 1..Len(ZoneOrder)}

\* the same test with the latitude and longitude conditions joined by "or"
InBoundingBoxEither(zn, la, lo) ==
    LET sw == zn.coords[1]
        ne == zn.coords[3]
    IN  (Geq(la, MathMin(sw[1], ne[1])) /\ Leq(la, MathMax(sw[1], ne[1])))
        \/ (Geq(lo, MathMin(sw[2], ne[2])) /\ Leq(lo, MathMax(sw[2], ne[2])))

\* the same test with strict comparisons
InBoundingBoxStrict(zn, la, lo) ==
    LET sw == zn.coords[1]
        ne == zn.coords[3]
    IN  /\ ~Leq(la, MathMin(sw[1], ne[1])) /\ ~Geq(la, MathMax(sw[1], ne[1]))
        /\ ~Leq(lo, MathMin(sw[2], ne[2])) /\ ~Geq(lo, MathMax(sw[2], ne[2]))
        /\ IsNumber(la) /\ IsNumber(lo)

\* getZoneForPosition, the body of the loop: corners 0 and 2, closed comparisons
InBoundingBox(zn, la, lo) ==
    LET sw == zn.coords[1]
        ne == zn.coords[3]
        minLat == MathMin(sw[1], ne[1])
        maxLat == MathMax(sw[1], ne[1])
        minLon == MathMin(sw[2], ne[2])
        maxLon == MathMax(sw[2], ne[2])
    IN  Geq(la, minLat) /\ Leq(la, maxLat) /\ Geq(lo, minLon) /\ Leq(lo, maxLon)

\* the for-of loop from entry i on: the first key whose box holds the point
RECURSIVE ScanZones(_, _, _)
ScanZones(i, la, lo) ==
    IF i > Len(ZoneOrder) THEN Null
    ELSE IF InBoundingBox(DRILL_ZONES[ZoneOrder[i]], la, lo) THEN ZoneOrder[i]
    ELSE ScanZones(i + 1, la, lo)

getZoneForPosition(la, lo) == ScanZones(1, la, lo)

(***************************************************************************)
(* Vessel registry: a JS Map, kept as the sequence of its entries in       *)
(* insertion order (Map.prototype.set keeps the place of an existing key,  *)
(* and appends a new one).                                                 *)
(***************************************************************************)
MapKeys(m) == {m[i].key : i \in 1..Len(m)}
MapHas(m, k) == k \in MapKeys(m)
MapGet(m, k) == m[CHOOSE i \in 1..Len(m) : m[i].key = k].value

\* a set() that always appends an entry
MapSetAppend(m, k, v) == Append(m, [key |-> k, value |-> v])

\* a set() that keeps the first value stored under a key
MapSetKeepFirst(m, k, v) ==
    IF MapHas(m, k) THEN m ELSE Append(m, [key |-> k, value |-> v])

\* vessels.set(k, v)
MapSet(m, k, v) ==
    IF MapHas(m, k)
    THEN [i \in 1..Len(m) |-> IF m[i].key = k THEN [key |-> k, value |-> v] ELSE m[i]]
    ELSE Append(m, [key |-> k, value |-> v])

(***************************************************************************)
(* displayVessels (map.js)                                                 *)
(*                                                                         *)
(* A report v is a record [mmsi, lat, lon, type_name, suspicious,          *)
(* in_drill_zone]; a missing mmsi, lat or lon is Undefined, a missing      *)
(* in_drill_zone is UndefinedStr, a missing suspicious is FALSE.  name     *)
(* and speed only reach the popup text and are left out.                   *)
(***************************************************************************)
ZeroStats == [total |-> 0, fishing |-> 0, cargo |-> 0, tanker |-> 0, inZone |-> 0, suspicious |-> 0]
ZeroZoneCounts == [north |-> 0, east |-> 0, south |-> 0, west |-> 0]

\* L.circleMarker([lat, lon], ...): the marker library is not part of the
\* repository; whether it rejects a missing coordinate (strict) is left open
CircleMarkerThrows(la, lo, strict) == strict /\ (la = Undefined \/ lo = Undefined)

Marker(kind, la, lo, ref) == [kind |-> kind, lat |-> la, lon |-> lo, ref |-> ref]

\* vesselMarkers[k] = marker, on an object kept as a function
ObjSet(o, k, x) == [j \in (DOMAIN o) \cup {k} |-> IF j = k THEN x ELSE o[j]]

\* a counter bump that counts every report, whatever its type
CountTypeAlways(stats, v, t) == [stats EXCEPT ![t] = @ + 1]

\* if (v.type_name === t) stats[t]++
CountType(stats, v, t) == IF v.type_name = t THEN [stats EXCEPT ![t] = @ + 1] ELSE stats

\* v.in_drill_zone || getZoneForPosition(v.lat, v.lon)
ZoneOfReport(v) ==
    IF Truthy(v.in_drill_zone) THEN v.in_drill_zone ELSE getZoneForPosition(v.lat, v.lon)

\* zoneCounts[z]++ : a key the object lacks reads undefined and becomes NaN
BumpZone(zoneCounts, z) ==
    [k \in (DOMAIN zoneCounts) \cup {z} |->
        IF k # z THEN zoneCounts[k]
        ELSE IF z \in DOMAIN zoneCounts THEN Incr(zoneCounts[z]) ELSE NaN]

\* the body of vesselList.forEach(v => ...), on the accumulated state a;
\* once an exception is raised (a.threw) the rest of the loop does not run,
\* and the locals stats and zoneCounts never reach the caller
IngestReport(a, v, strict) ==
    IF a.threw THEN a
    ELSE IF CircleMarkerThrows(v.lat, v.lon, strict)
    THEN [a EXCEPT !.threw = TRUE, !.vessels = MapSet(a.vessels, v.mmsi, v)]
    ELSE LET z == ZoneOfReport(v)
             s1 == [a.stats EXCEPT !.total = @ + 1,
                                   !.suspicious = IF v.suspicious THEN @ + 1 ELSE @]
             s2 == CountType(CountType(CountType(s1, v, "fishing"), v, "cargo"), v, "tanker")
             m == Marker("vessel", v.lat, v.lon, v.mmsi)
         IN  [threw |-> FALSE,
              stats |-> IF Truthy(z) THEN [s2 EXCEPT !.inZone = @ + 1] ELSE s2,
              zoneCounts |-> IF Truthy(z) THEN BumpZone(a.zoneCounts, z) ELSE a.zoneCounts,
              vessels |-> MapSet(a.vessels, v.mmsi, v),
              layer |-> a.layer \o (IF v.suspicious
                                    THEN <<Marker("glow", v.lat, v.lon, v.mmsi), m>>
                                    ELSE <<m>>),
              markers |-> ObjSet(a.markers, v.mmsi, m)]

RECURSIVE ForEachReport(_, _, _, _)
ForEachReport(a, vesselList, i, strict) ==
    IF i > Len(vesselList) THEN a
    ELSE LET next == CHOOSE x \in {IngestReport(a, vesselList[i], strict)} : TRUE
         IN  ForEachReport(next, vesselList, i + 1, strict)

\* displayVessels(vesselList, vessels): layers.vessels.clearLayers(),
\* vesselMarkers = {}, fresh stats and zoneCounts, then the loop
displayVessels(vesselList, vs, strict) ==
    ForEachReport([threw |-> FALSE, stats |-> ZeroStats, zoneCounts |-> ZeroZoneCounts,
                   vessels |-> vs, layer |-> <<>>, markers |-> <<>>],
                  vesselList, 1, strict)

\* what the caller holds after the call: nothing when it threw
Returned(r) ==
    IF r.threw
    THEN [threw |-> TRUE, stats |-> ZeroStats, zoneCounts |-> ZeroZoneCounts]
    ELSE [threw |-> FALSE, stats |-> r.stats, zoneCounts |-> r.zoneCounts]

HasMissingPosition(vesselList) ==
    \E i \in 1..Len(vesselList) : vesselList[i].lat = Undefined \/ vesselList[i].lon = Undefined

SeqsUpTo(S, n) == UNION {[1..k -> S] : k \in 0..n}

\* one call displayVessels(batch, vessels) with batch drawn from batches
DisplayVesselsCall(batches) ==
    \E batch \in batches :
        \E strict \in (IF HasMissingPosition(batch) THEN BOOLEAN ELSE {FALSE}) :
            \E r \in {displayVessels(batch, vessels, strict)} :
                /\ vessels' = r.vessels
                /\ layerVessels' = r.layer
                /\ vesselMarkers' = r.markers
                /\ result' = Returned(r)
                /\ lastBatch' = batch
                /\ calls' = calls + 1
                /\ repeated' = (calls >= 1 /\ batch = lastBatch)
                /\ UNCHANGED <<zoneVars, pageVars, loadVars, renderVars, readVars, sideVars>>

\* the sparkline container as served: no bar
NoBars == [written |-> FALSE, bars |-> <<>>]

(***************************************************************************)
(* charts.js renderSparkline                                               *)
(*                                                                         *)
(* A quotient a / b of two counts is kept exact, as the pair <<a, b>>.     *)
(* With b = 0 JavaScript gives Infinity (a > 0) or NaN (a = 0) and raises  *)
(* nothing; Infinity exceeds, and NaN fails, every comparison below.       *)
(***************************************************************************)
Quot(a, b) == <<a, b>>
\* q > n/d for a quotient q of non-negative counts and a literal n/d
Exceeds(q, n, d) ==
    IF q[2] = 0 THEN q[1] > 0 ELSE q[1] * d > n * q[2]

\* Math.max(...dailyData.map(d => d.total_detections)), dailyData non-empty
RECURSIVE MaxTotal(_, _)
MaxTotal(days, i) ==
    IF i > Len(days) THEN 0
    ELSE MathMax(days[i].total_detections, MaxTotal(days, i + 1))

\* a ratio taken over total_detections itself
DarkRatioUnguarded(d) == Quot(d.dark_vessels, d.total_detections)

\* d.dark_vessels / Math.max(1, d.total_detections)
DarkRatio(d) == Quot(d.dark_vessels, MathMax(1, d.total_detections))

\* the colour test with closed thresholds
BarColorClosed(darkRatio) ==
    IF ~Exceeds(Quot(8 * darkRatio[2], 10), darkRatio[1], 1) THEN "accent-red"
    ELSE IF ~Exceeds(Quot(5 * darkRatio[2], 10), darkRatio[1], 1) THEN "accent-orange"
    ELSE "accent-cyan"

\* darkRatio > 0.8 ? red : darkRatio > 0.5 ? orange : cyan
BarColor(darkRatio) ==
    IF Exceeds(darkRatio, 8, 10) THEN "accent-red"
    ELSE IF Exceeds(darkRatio, 5, 10) THEN "accent-orange"
    ELSE "accent-cyan"

\* maxVal > 0 ? Math.max(2, (d.total_detections / maxVal) * 30) : 2
BarHeight(d, maxVal) ==
    IF maxVal > 0 /\ d.total_detections * 30 > 2 * maxVal
    THEN Quot(d.total_detections * 30, maxVal)
    ELSE Quot(2, 1)

\* renderSparkline(containerId, dailyData): nothing for an empty series,
\* else one bar per day
renderSparkline(days) ==
    IF Len(days) = 0 THEN NoBars
    ELSE [written |-> TRUE,
          bars |-> [i \in 1..Len(days) |->
                       [h |-> BarHeight(days[i], MaxTotal(days, 1)),
                        darkRatio |-> DarkRatio(days[i]),
                        color |-> BarColor(DarkRatio(days[i]))]]]

(***************************************************************************)
(* Page elements and snapshot values                                       *)
(*                                                                         *)
(* An optional JSON member is Absent or Some(value).  The text of an       *)
(* element is a pair <<number, unit>>: Text(7) is "7", <<13, "K">> is      *)
(* "1.3K" (the number in tenths when a unit follows).                      *)
(***************************************************************************)
Absent == <<>>
Some(x) == <<x>>
Has(o) == Len(o) > 0
Get(o) == o[1]

Text(n) == <<n, "">>
\* what an element shows before anything is written to it
Placeholder == <<0, "--">>

\* charts.js formatCompact: one decimal and a unit from 1000 on
formatCompact(num) ==
    IF num >= 1000000 THEN <<(num * 10 + 500000) \div 1000000, "M">>
    ELSE IF num >= 10000 THEN <<(num * 10 + 5000) \div 10000, "wan">>
    ELSE IF num >= 1000 THEN <<(num * 10 + 500) \div 1000, "K">>
    ELSE Text(num)

\* Math.round of a number given in tenths
MathRound(tenths) == (tenths + 5) \div 10

\* a slice that lets one more element through
SliceOneMore(list, n) == SubSeq(list, 1, MathMin(Len(list), n + 1))

\* list.slice(0, n)
Slice(list, n) == SubSeq(list, 1, MathMin(Len(list), n))

SuspiciousListLimit == 10
IdentityListLimit == 10
VesselListLimit == 12

\* the page as index.html and App.init leave it (updateZoneList writes 0
\* into every zone counter)
InitDom ==
    [dataStatus |-> [text |-> "init", live |-> FALSE],
     updateInfo |-> "init",
     gfwSection |-> FALSE,
     gfwDarkVessels |-> Placeholder,
     gfwDrillRecords |-> Placeholder,
     gfwDataDays |-> Placeholder,
     zone |-> [z \in Zones |-> Text(0)],
     suspiciousList |-> [kind |-> "init", analyzed |-> 0, items |-> <<>>],
     suspiciousCount |-> Placeholder,
     identitySection |-> FALSE,
     identity24h |-> Placeholder,
     identity7d |-> Placeholder,
     identityVessels7d |-> Placeholder,
     identityList |-> <<>>,
     aisStatsSection |-> TRUE,
     statTotal |-> Placeholder,
     statFishing |-> Placeholder,
     statCargo |-> Placeholder,
     statTanker |-> Placeholder,
     vesselCount |-> Placeholder,
     drillZoneCount |-> Placeholder,
     vesselList |-> <<>>]

\* the state a loadData run works on: the module state of app.js and map.js
\* and the page; threw is set once an exception is on its way to the catch
PageState(vs, sd, layer, markers, d) ==
    [threw |-> FALSE, vessels |-> vs, suspiciousData |-> sd,
     layer |-> layer, markers |-> markers, dom |-> d]

(***************************************************************************)
(* charts.js displayGfwStats, updateAisStats, updateOverlayCards,          *)
(* updateZoneCounts                                                        *)
(***************************************************************************)
\* displayGfwStats(vm, ids): the section is shown, then vm.summary is read;
\* a vessel_monitoring without summary raises a TypeError at s.avg_...
displayGfwStats(st, vm) ==
    LET shown == [st EXCEPT !.dom.gfwSection = TRUE]
    IN  IF ~Has(vm.summary) THEN [shown EXCEPT !.threw = TRUE]
        ELSE [shown EXCEPT
                 !.dom.gfwDarkVessels = Text(MathRound(Get(vm.summary).avg_daily_dark_vessels)),
                 !.dom.gfwDrillRecords = formatCompact(Get(vm.summary).chn_drill_zone_records),
                 !.dom.gfwDataDays = Text(Get(vm.summary).total_days)]

updateAisStats(st, stats) ==
    [st EXCEPT !.dom.statTotal = Text(stats.total),
               !.dom.statFishing = Text(stats.fishing),
               !.dom.statCargo = Text(stats.cargo),
               !.dom.statTanker = Text(stats.tanker)]

\* updateOverlayCards(data, false): the cards of a page without AIS data
updateOverlayCards(st, data) ==
    LET sm == Get(Get(data.vessel_monitoring).summary)
        cards == [st EXCEPT
                     !.dom.vesselCount = formatCompact(sm.avg_daily_detections * sm.total_days),
                     !.dom.drillZoneCount = formatCompact(sm.chn_drill_zone_records)]
    IN  IF ~Has(Get(data.vessel_monitoring).summary) THEN [st EXCEPT !.threw = TRUE]
        ELSE IF Has(data.dark_vessels) /\ Has(Get(data.dark_vessels).overall)
        THEN [cards EXCEPT
                 !.dom.suspiciousCount =
                     formatCompact(Get(Get(data.dark_vessels).overall).dark_vessels)]
        ELSE cards

\* zoneMapping of updateZoneCounts
ZoneRegion == [north |-> "east_china_sea", east |-> "east_taiwan",
               south |-> "south_china_sea", west |-> "taiwan_strait"]

RegionKeys(regions) == {regions[i].key : i \in 1..Len(regions)}
Region(regions, k) == regions[CHOOSE i \in 1..Len(regions) : regions[i].key = k].value

\* updateZoneCounts({}, darkData): each zone whose region is present shows
\* that region's dark-vessel count
updateZoneCountsDark(st, regions) ==
    [st EXCEPT !.dom.zone =
        [z \in Zones |->
            IF ZoneRegion[z] \in RegionKeys(regions)
            THEN formatCompact(Region(regions, ZoneRegion[z]).dark_vessels)
            ELSE st.dom.zone[z]]]

\* updateZoneCounts(zoneCounts): every key of zoneCounts that has an element
updateZoneCounts(st, zoneCounts) ==
    [st EXCEPT !.dom.zone =
        [z \in Zones |-> IF z \in DOMAIN zoneCounts THEN Text(zoneCounts[z]) ELSE st.dom.zone[z]]]

(***************************************************************************)
(* map.js displayDarkVessels, displaySuspiciousVessels                     *)
(***************************************************************************)
\* d.lat && d.lon, sv.last_lat && sv.last_lon: present and not 0
TruthyNum(x) == x \notin {Undefined, NaN, 0}

RECURSIVE DarkMarkers(_, _, _)
DarkMarkers(key, details, i) ==
    IF i > Len(details) THEN <<>>
    ELSE (IF TruthyNum(details[i].lat) /\ TruthyNum(details[i].lon)
          THEN <<Marker("dark", details[i].lat, details[i].lon, key)>>
          ELSE <<>>) \o DarkMarkers(key, details, i + 1)

RECURSIVE RegionMarkers(_, _)
RegionMarkers(regions, i) ==
    IF i > Len(regions) THEN <<>>
    ELSE (IF Has(regions[i].value.dark_details)
          THEN DarkMarkers(regions[i].key, Get(regions[i].value.dark_details), 1)
          ELSE <<>>) \o RegionMarkers(regions, i + 1)

\* displayDarkVessels(darkData): one marker per positioned detail record,
\* added to layers.vessels
displayDarkVessels(st, regions) ==
    [st EXCEPT !.layer = @ \o RegionMarkers(regions, 1)]

RECURSIVE SuspiciousMarkers(_, _)
SuspiciousMarkers(svs, i) ==
    IF i > Len(svs) THEN <<>>
    ELSE (IF TruthyNum(svs[i].last_lat) /\ TruthyNum(svs[i].last_lon)
          THEN <<Marker("suspicious", svs[i].last_lat, svs[i].last_lon, svs[i].mmsi)>>
          ELSE <<>>) \o SuspiciousMarkers(svs, i + 1)

\* displaySuspiciousVessels(suspiciousData)
displaySuspiciousVessels(st, sd) ==
    IF ~Has(sd.suspicious_vessels) THEN st
    ELSE [st EXCEPT !.layer = @ \o SuspiciousMarkers(Get(sd.suspicious_vessels), 1)]

(***************************************************************************)
(* app.js updateVesselList, updateSuspiciousList, updateIdentitySection    *)
(***************************************************************************)
updateVesselList(st) ==
    LET recent == Slice(st.vessels, VesselListLimit)
    IN  [st EXCEPT !.dom.vesselList =
            [i \in 1..Len(recent) |->
                [mmsi |-> recent[i].value.mmsi, type_name |-> recent[i].value.type_name]]]

\* (sv.names && sv.names[0]) || sv.mmsi is a string only when a name is
\* given: mmsi is a number, and name.substring then raises a TypeError
SuspiciousItemThrows(sv) == Len(sv.names) = 0

SuspiciousItem(sv) ==
    [name |-> sv.names[1], risk_level |-> sv.risk_level,
     last_lat |-> sv.last_lat, last_lon |-> sv.last_lon]

\* updateSuspiciousList(), reading the module's suspiciousData (never null
\* when loadData calls it)
updateSuspiciousList(st) ==
    LET sd == Get(st.suspiciousData)
        shownVessels == Slice(Get(sd.suspicious_vessels), SuspiciousListLimit)
    IN  IF ~Has(sd.suspicious_vessels) \/ Len(Get(sd.suspicious_vessels)) = 0
        THEN IF Has(sd.summary) /\ Get(sd.summary).total_analyzed > 0
             THEN [st EXCEPT !.dom.suspiciousList =
                      [kind |-> "analyzed", analyzed |-> Get(sd.summary).total_analyzed,
                       items |-> <<>>]]
             ELSE st
        ELSE IF \E i \in 1..Len(shownVessels) : SuspiciousItemThrows(shownVessels[i])
        THEN [st EXCEPT !.threw = TRUE]
        ELSE displaySuspiciousVessels(
                 [st EXCEPT !.dom.suspiciousList =
                     [kind |-> "items", analyzed |-> 0,
                      items |-> [i \in 1..Len(shownVessels) |-> SuspiciousItem(shownVessels[i])]]],
                 sd)

\* the field || 0 of the identity counters
OrZero(x) == IF TruthyNum(x) THEN x ELSE 0

\* an updateIdentitySection that takes events_7d whenever it has entries
updateIdentitySectionSevenDaysFirst(st, data) ==
    IF ~Has(data.identity_events) \/ ~Has(Get(data.identity_events).summary) THEN st
    ELSE LET idData == Get(data.identity_events)
             summary == Get(idData.summary)
             events == IF Len(idData.events_7d) > 0 THEN idData.events_7d ELSE idData.events_24h
             counters == [st EXCEPT !.dom.identitySection = TRUE,
                                    !.dom.identity24h = Text(OrZero(summary.count_24h)),
                                    !.dom.identity7d = Text(OrZero(summary.count_7d)),
                                    !.dom.identityVessels7d = Text(OrZero(summary.vessels_7d))]
         IN  IF summary.count_7d = 0 /\ summary.count_24h = 0 THEN st
             ELSE IF Len(events) = 0 THEN counters
             ELSE [counters EXCEPT !.dom.identityList = Slice(events, IdentityListLimit)]

\* updateIdentitySection(data)
updateIdentitySection(st, data) ==
    IF ~Has(data.identity_events) \/ ~Has(Get(data.identity_events).summary) THEN st
    ELSE LET idData == Get(data.identity_events)
             summary == Get(idData.summary)
             events == IF Len(idData.events_24h) > 0 THEN idData.events_24h ELSE idData.events_7d
             counters == [st EXCEPT !.dom.identitySection = TRUE,
                                    !.dom.identity24h = Text(OrZero(summary.count_24h)),
                                    !.dom.identity7d = Text(OrZero(summary.count_7d)),
                                    !.dom.identityVessels7d = Text(OrZero(summary.vessels_7d))]
         IN  IF summary.count_7d = 0 /\ summary.count_24h = 0 THEN st
             ELSE IF Len(events) = 0 THEN counters
             ELSE [counters EXCEPT !.dom.identityList = Slice(events, IdentityListLimit)]

(***************************************************************************)
(* app.js loadData                                                         *)
(***************************************************************************)
\* setDataStatus(text, isLive)
setDataStatus(st, text, isLive) ==
    [st EXCEPT !.dom.dataStatus = [text |-> text, live |-> isLive]]

\* the try block up to the AIS section: update time, GFW statistics, dark
\* vessels, suspicious analysis, identity events
ApplyGfw(st, data) ==
    IF Has(data.vessel_monitoring)
    THEN displayGfwStats([st EXCEPT !.dom.updateInfo = "updated"], Get(data.vessel_monitoring))
    ELSE [st EXCEPT !.dom.updateInfo = "updated"]

\* a dark-vessel step that reads data.dark_vessels.regions without testing
\* that the section is there
ApplyDarkUnguarded(st, data) ==
    IF st.threw THEN st
    ELSE IF Has(data.dark_vessels) /\ Has(Get(data.dark_vessels).regions)
    THEN updateZoneCountsDark(displayDarkVessels(st, Get(Get(data.dark_vessels).regions)),
                              Get(Get(data.dark_vessels).regions))
    ELSE [st EXCEPT !.threw = TRUE]

\* if (data.dark_vessels && data.dark_vessels.regions) { ... }
ApplyDark(st, data) ==
    IF st.threw THEN st
    ELSE IF Has(data.dark_vessels) /\ Has(Get(data.dark_vessels).regions)
    THEN updateZoneCountsDark(displayDarkVessels(st, Get(Get(data.dark_vessels).regions)),
                              Get(Get(data.dark_vessels).regions))
    ELSE st

ApplySuspiciousCount(st) ==
    IF st.threw \/ ~Has(Get(st.suspiciousData).summary) THEN st
    ELSE [st EXCEPT !.dom.suspiciousCount =
             Text(OrZero(Get(Get(st.suspiciousData).summary).suspicious_count))]

ApplySuspicious(st, data) ==
    IF st.threw THEN st
    ELSE IF Has(data.suspicious_analysis)
    THEN LET listed == CHOOSE x \in {updateSuspiciousList(
                           [st EXCEPT !.suspiciousData = data.suspicious_analysis])} : TRUE
         IN  ApplySuspiciousCount(listed)
    ELSE st

ApplyIdentity(st, data) ==
    IF st.threw THEN st ELSE updateIdentitySection(st, data)

\* the AIS section and the status: displayVessels on the module's registry,
\* the statistics, the cards, the vessel list
ApplyAisFound(st, r) ==
    IF r.threw
    THEN [st EXCEPT !.threw = TRUE, !.vessels = r.vessels, !.layer = r.layer,
                    !.markers = r.markers]
    ELSE setDataStatus(
             updateVesselList(
                 [updateZoneCounts(updateAisStats(st, r.stats), r.zoneCounts) EXCEPT
                     !.vessels = r.vessels, !.layer = r.layer, !.markers = r.markers,
                     !.dom.vesselCount = Text(r.stats.total),
                     !.dom.drillZoneCount = Text(r.stats.inZone)]),
             "ais_sat_loaded", TRUE)

\* the same branches with vessel_monitoring tested before the AIS vessels
ApplyAisSatelliteFirst(st, data, strict) ==
    IF st.threw THEN st
    ELSE IF Has(data.vessel_monitoring)
    THEN LET cards == CHOOSE x \in {updateOverlayCards(
                          [st EXCEPT !.dom.aisStatsSection = FALSE], data)} : TRUE
         IN  IF cards.threw THEN cards ELSE setDataStatus(cards, "sat_loaded", TRUE)
    ELSE IF Has(data.ais_snapshot) /\ Len(Get(data.ais_snapshot).vessels) > 0
    THEN LET r == CHOOSE x \in {displayVessels(Get(data.ais_snapshot).vessels,
                                               st.vessels, strict)} : TRUE
         IN  ApplyAisFound(st, r)
    ELSE setDataStatus(st, "no_data", FALSE)

\* the AIS section and the status tag: hasAis, else vessel_monitoring, else no data
ApplyAis(st, data, strict) ==
    IF st.threw THEN st
    ELSE IF Has(data.ais_snapshot) /\ Len(Get(data.ais_snapshot).vessels) > 0
    THEN LET r == CHOOSE x \in {displayVessels(Get(data.ais_snapshot).vessels,
                                               st.vessels, strict)} : TRUE
         IN  ApplyAisFound(st, r)
    ELSE IF Has(data.vessel_monitoring)
    THEN LET cards == CHOOSE x \in {updateOverlayCards(
                          [st EXCEPT !.dom.aisStatsSection = FALSE], data)} : TRUE
         IN  IF cards.threw THEN cards ELSE setDataStatus(cards, "sat_loaded", TRUE)
    ELSE setDataStatus(st, "no_data", FALSE)

\* a catch block that also empties the registry and the stored analysis
CatchResetting(st) ==
    [st EXCEPT !.threw = FALSE, !.vessels = <<>>, !.suspiciousData = Absent,
               !.dom.dataStatus = [text |-> "error_load", live |-> FALSE],
               !.dom.updateInfo = "load_fail_msg"]

\* the catch block: the failure status and the hint in the update line
Catch(st) ==
    [st EXCEPT !.threw = FALSE,
               !.dom.dataStatus = [text |-> "error_load", live |-> FALSE],
               !.dom.updateInfo = "load_fail_msg"]

\* the try block on a parsed snapshot, each section on the state the one
\* before it left
TryBlock(st, data, strict) ==
    CHOOSE s5 \in
        {ApplyAis(s4, data, strict) : s4 \in
            {ApplyIdentity(s3, data) : s3 \in
                {ApplySuspicious(s2, data) : s2 \in
                    {ApplyDark(s1, data) : s1 \in {ApplyGfw(st, data)}}}}} : TRUE

(***************************************************************************)
(* The zone lookup on its own: every point of a 0.1-degree grid around     *)
(* the four zones, and a missing coordinate.                               *)
(***************************************************************************)
\* how far (tenths of a degree) the grid extends beyond the zones' hull
GridMargin == 3

LatGrid == {Undefined} \cup ((215 - GridMargin)..(268 + GridMargin))
LonGrid == {Undefined} \cup ((1185 - GridMargin)..(1250 + GridMargin))

Unset == "unset"

InitMap ==
    /\ vessels = <<>>
    /\ layerVessels = <<>>
    /\ vesselMarkers = <<>>

InitIngest ==
    /\ result = Returned([threw |-> TRUE])
    /\ lastBatch = <<>>
    /\ calls = 0
    /\ repeated = FALSE

\* a snapshot with none of its sections
EmptySnapshot ==
    [vessel_monitoring |-> Absent, dark_vessels |-> Absent, suspicious_analysis |-> Absent,
     identity_events |-> Absent, ais_snapshot |-> Absent]

InitPage ==
    /\ suspiciousData = Absent
    /\ dom = InitDom

InitLoad ==
    /\ fetching = 0
    /\ parsing = 0
    /\ started = 0
    /\ finished = 0
    /\ failed = 0
    /\ lastData = EmptySnapshot
    /\ lastStrict = FALSE
    /\ lastEvent = "none"

(***************************************************************************)
(* Service worker (sw.js).  A request is its origin, the file name its     *)
(* path ends in, written as <<stem, ending>>, and its query (0: none);     *)
(* caches.match and cache.put compare the whole URL, query included.  All  *)
(* requests are GET.  A response is its status, its type and its body.     *)
(***************************************************************************)
\* url.pathname.endsWith('data.json')
EndsWithDataJson(req) == req.name[2] = "data.json"

\* what caches.match resolves to on a miss, what a rejected promise gives the page
UndefinedResponse == [status |-> 0, type |-> "undefined", body |-> 0]
NetworkError == [status |-> 0, type |-> "error", body |-> 0]

\* caches.match(request)
CachesMatch(c, req) == IF req \in DOMAIN c THEN c[req] ELSE UndefinedResponse

\* cache.put(request, response)
CachePut(c, req, resp) == [r \in DOMAIN c \cup {req} |-> IF r = req THEN resp ELSE c[r]]

\* !response || response.status !== 200 || response.type !== 'basic'
NotCacheable(resp) == resp.status # 200 \/ resp.type # "basic"

\* STATIC_ASSETS, as cache.addAll stored them at install
AppJs == [origin |-> "self", name |-> <<"app", ".js">>, query |-> 0]
Precached == [r \in {AppJs} |-> [status |-> 200, type |-> "basic", body |-> 1]]

\* no fetch event answered yet
NoAnswer == [n |-> 0, req |-> AppJs, tried |-> <<>>, hit |-> FALSE, net |-> "none",
             resp |-> UndefinedResponse]

\* the worker installed and active, no fetch event yet
InitWorker ==
    /\ cache = Precached
    /\ stored = {}
    /\ inflight = {}
    /\ answer = NoAnswer
    /\ fetchEvents = 0
    /\ clock = 1

(***************************************************************************)
(* Chart registry (charts.js 9, 42-172, 319-334).  A Chart instance is its *)
(* serial number, its type and the canvas it draws on; destroy() takes it  *)
(* out of the instances alive.                                             *)
(***************************************************************************)
NoCharts == <<>>

\* charts[canvasId] (undefined is falsy)
HasChart(reg, canvasId) == canvasId \in DOMAIN reg

\* charts[canvasId].destroy()
Destroy(alive, chart) == alive \ {chart}

\* a render that puts the new chart in place without destroying the old one
RenderOver(reg, alive, canvasId, chart) ==
    [charts |-> ObjSet(reg, canvasId, chart), live |-> alive \cup {chart}]

\* if (charts[canvasId]) charts[canvasId].destroy();
\* charts[canvasId] = new Chart(...)
Render(reg, alive, canvasId, chart) ==
    LET cleared == IF HasChart(reg, canvasId) THEN Destroy(alive, reg[canvasId]) ELSE alive
    IN  [charts |-> ObjSet(reg, canvasId, chart), live |-> cleared \cup {chart}]

\* no chart rendered yet
InitCharts ==
    /\ charts = NoCharts
    /\ liveCharts = {}
    /\ created = 0

(***************************************************************************)
(* run_ais_local.sh and run_ais_local.bat.  A command ends with an exit    *)
(* value; the shell sees it modulo 256, cmd.exe as it is.                  *)
(***************************************************************************)
\* the exit status the script sees for a command that exits with value
ExitStatus(sc, value) == IF sc = "sh" THEN value % 256 ELSE value

\* sh: if ! cmd; then ...     bat: if errorlevel 1 ( ... )
TakenAsFailed(sc, status) == IF sc = "sh" THEN status # 0 ELSE status >= 1

\* the scripts not started (the script named is the one that would run)
InitPipeline ==
    /\ script = "sh"
    /\ pc = "fetch"
    /\ ran = <<>>
    /\ staged = FALSE

(***************************************************************************)
(* i18n (part_000 252, 278-283, 322-338, 350).  A language tag of the      *)
(* browser is written <<first two characters, rest>>; the item 'lang' of   *)
(* localStorage is a string, or NoItem when getItem gives null.            *)
(***************************************************************************)
NoItem == "(null)"

\* a || b on strings that may be missing: the empty string is falsy
OrElse(a, b) == IF Has(a) /\ Get(a) # <<"", "">> THEN a ELSE b

\* nav.startsWith('zh')
StartsWithZh(tag) == tag[1] = "zh"

\* detectLanguage()
detectLanguage(saved, nav) ==
    IF saved # NoItem /\ saved # "" /\ (saved = "zh" \/ saved = "en") THEN saved
    ELSE LET tag == Get(OrElse(OrElse(nav.language, nav.userLanguage), Some(<<"", "">>)))
         IN  IF StartsWithZh(tag) THEN "zh" ELSE "en"

\* a browser set to Chinese, nothing saved, the module loaded
ZhBrowser == [language |-> Some(<<"zh", "-TW">>), userLanguage |-> Absent]

InitLang ==
    /\ navigatorLang = ZhBrowser
    /\ storedLang = NoItem
    /\ currentLang = detectLanguage(NoItem, ZhBrowser)
    /\ langCalls = 0

InitSide == InitWorker /\ InitCharts /\ InitPipeline /\ InitLang

\* no text returned, no read made
NoText == <<0, "unset">>
NotRead == [read |-> FALSE, mmsi |-> 0, keys |-> {}, batch |-> {}, found |-> FALSE]

\* nothing rendered by renderSparkline or timeAgo yet, the registry not yet read
NoRender ==
    /\ dailyData = <<>>
    /\ sparkline = NoBars
    /\ isoStr = 0
    /\ now = 0
    /\ ago = NoText
    /\ seen = NotRead

InitZone ==
    /\ lat \in LatGrid
    /\ lon \in LonGrid
    /\ zone = Unset
    /\ InitMap
    /\ InitIngest
    /\ InitPage
    /\ InitLoad
    /\ NoRender
    /\ InitSide

LookupZone ==
    /\ zone = Unset
    /\ zone' = getZoneForPosition(lat, lon)
    /\ UNCHANGED <<lat, lon, mapVars, ingestVars, pageVars, loadVars, renderVars, readVars, sideVars>>

NextZone == LookupZone

SpecZone == InitZone /\ [][NextZone]_vars

NoZoneLookup ==
    /\ lat = Undefined
    /\ lon = Undefined
    /\ zone = Unset

(***************************************************************************)
(* One displayVessels call on the empty registry of a fresh page, over a   *)
(* wide set of reports: every type counter, flagged and unflagged, tagged  *)
(* and untagged, in and out of a zone, and reports lacking their           *)
(* identifier or their position.                                           *)
(***************************************************************************)
\* longest batch of the single-call specification
MaxBatchLen == 2

\* a report that is complete: every type, flagged or not, tagged or not,
\* inside the north zone or at the scenario point outside every zone
CompleteReports ==
    {[mmsi |-> 1, lat |-> p[1], lon |-> p[2], type_name |-> t,
      suspicious |-> s, in_drill_zone |-> tag] :
        p \in {<<260, 1215>>, <<240, 1212>>},
        t \in {"fishing", "cargo", "tanker", "other"},
        s \in BOOLEAN, tag \in {UndefinedStr, "south"}}

\* a report tagged with a value that is no zone id (the boolean true)
OddlyTaggedReports ==
    {[mmsi |-> 2, lat |-> 240, lon |-> 1212, type_name |-> "cargo",
      suspicious |-> FALSE, in_drill_zone |-> "true"]}

\* a report lacking its identifier, or its position
MalformedReports ==
    {[mmsi |-> Undefined, lat |-> p[1], lon |-> p[2], type_name |-> "fishing",
      suspicious |-> FALSE, in_drill_zone |-> UndefinedStr] :
        p \in {<<260, 1215>>, <<240, 1212>>}}
    \cup
    {[mmsi |-> 2, lat |-> Undefined, lon |-> Undefined, type_name |-> t,
      suspicious |-> s, in_drill_zone |-> UndefinedStr] :
        t \in {"fishing", "other"}, s \in BOOLEAN}

BatchReports == CompleteReports \cup OddlyTaggedReports \cup MalformedReports

InitBatch == NoZoneLookup /\ InitMap /\ InitIngest /\ InitPage /\ InitLoad /\ NoRender /\ InitSide

IngestBatch ==
    /\ calls = 0
    /\ DisplayVesselsCall(SeqsUpTo(BatchReports, MaxBatchLen))

NextBatch == IngestBatch

SpecBatch == InitBatch /\ [][NextBatch]_vars

(***************************************************************************)
(* Repeated displayVessels calls on the same registry.                     *)
(***************************************************************************)
\* longest batch, and number of calls, of the repeated-call specification
MaxRegistryBatchLen == 2
MaxCalls == 2

\* vessel 1 reported at two positions (so that a later report differs from
\* the stored one), vessel 2, and a report lacking its identifier
RegistryReports ==
    {[mmsi |-> 1, lat |-> p[1], lon |-> p[2], type_name |-> "fishing",
      suspicious |-> FALSE, in_drill_zone |-> UndefinedStr] :
        p \in {<<260, 1215>>, <<240, 1212>>}}
    \cup
    {[mmsi |-> id, lat |-> 260, lon |-> 1215, type_name |-> "cargo",
      suspicious |-> FALSE, in_drill_zone |-> UndefinedStr] :
        id \in {2, Undefined}}

InitRegistry == NoZoneLookup /\ InitMap /\ InitIngest /\ InitPage /\ InitLoad /\ NoRender /\ InitSide

IngestAgain ==
    /\ calls < MaxCalls
    /\ DisplayVesselsCall(SeqsUpTo(RegistryReports, MaxRegistryBatchLen))

NextRegistry == IngestAgain

SpecRegistry == InitRegistry /\ [][NextRegistry]_vars

(***************************************************************************)
(* loadData calls on one page.  A call waits on fetch() and on res.json(); *)
(* App.loadData is public and nothing keeps a second call from starting    *)
(* while one waits, so calls overlap.  The snapshot is whatever the server *)
(* sends at that moment.                                                   *)
(***************************************************************************)
\* number of loadData calls
MaxLoads == 2

VesselMonitoringValues ==
    {Absent,
     Some([summary |-> Absent]),
     Some([summary |-> Some([avg_daily_dark_vessels |-> 125, chn_drill_zone_records |-> 1250,
                             avg_daily_detections |-> 30, total_days |-> 3])])}

DarkVesselsValues ==
    {Absent,
     Some([regions |-> Some(<<[key |-> "taiwan_strait",
                               value |-> [dark_vessels |-> 80, total_detections |-> 100,
                                          dark_details |-> Some(<<[lat |-> 240, lon |-> 1190,
                                                                   detections |-> 5]>>)]]>>),
           overall |-> Some([dark_vessels |-> 80])])}

SuspiciousVessel(names) ==
    [mmsi |-> 7, names |-> names, risk_level |-> "high", last_lat |-> 245, last_lon |-> 1195]

SuspiciousAnalysisValues ==
    {Absent,
     Some([summary |-> Some([total_analyzed |-> 50, suspicious_count |-> 0]),
           suspicious_vessels |-> Some(<<>>)]),
     Some([summary |-> Some([total_analyzed |-> 50, suspicious_count |-> 1]),
           suspicious_vessels |-> Some(<<SuspiciousVessel(<<"A">>)>>)]),
     Some([summary |-> Some([total_analyzed |-> 50, suspicious_count |-> 1]),
           suspicious_vessels |-> Some(<<SuspiciousVessel(<<>>)>>)])}

IdentityEventsValues ==
    {Absent,
     Some([summary |-> Some([count_24h |-> 1, count_7d |-> 2, vessels_7d |-> 2]),
           events_24h |-> <<[mmsi |-> 8, in_drill_zone |-> TRUE]>>,
           events_7d |-> <<[mmsi |-> 8, in_drill_zone |-> TRUE],
                           [mmsi |-> 9, in_drill_zone |-> FALSE]>>])}

AisSnapshotValues ==
    {Absent,
     Some([vessels |-> <<[mmsi |-> 1, lat |-> 260, lon |-> 1215, type_name |-> "fishing",
                          suspicious |-> TRUE, in_drill_zone |-> UndefinedStr]>>])}

\* every combination of the values of the five sections, and the snapshots
\* whose ais_snapshot has an empty vessels list
Snapshots ==
    [vessel_monitoring : VesselMonitoringValues, dark_vessels : DarkVesselsValues,
     suspicious_analysis : SuspiciousAnalysisValues, identity_events : IdentityEventsValues,
     ais_snapshot : AisSnapshotValues]
    \cup
    [vessel_monitoring : VesselMonitoringValues, dark_vessels : {Absent},
     suspicious_analysis : {Absent}, identity_events : {Absent},
     ais_snapshot : {Some([vessels |-> <<>>])}]

CurrentPage == PageState(vessels, suspiciousData, layerVessels, vesselMarkers, dom)

Install(st) ==
    /\ vessels' = st.vessels
    /\ suspiciousData' = st.suspiciousData
    /\ layerVessels' = st.layer
    /\ vesselMarkers' = st.markers
    /\ dom' = st.dom

\* App.loadData(): fetch('data.json?' + Date.now()) is issued
LoadData ==
    /\ started < MaxLoads
    /\ started' = started + 1
    /\ fetching' = fetching + 1
    /\ lastEvent' = "called"
    /\ UNCHANGED <<zoneVars, mapVars, ingestVars, pageVars, parsing, finished, failed,
                   lastData, lastStrict, renderVars, readVars, sideVars>>

\* await fetch(...) rejects: the catch block
FetchRejects ==
    /\ fetching > 0
    /\ fetching' = fetching - 1
    /\ Install(Catch(CurrentPage))
    /\ finished' = finished + 1
    /\ failed' = failed + 1
    /\ lastEvent' = "fetch_rejected"
    /\ UNCHANGED <<zoneVars, ingestVars, parsing, started, lastData, lastStrict,
                   renderVars, readVars, sideVars>>

\* await fetch(...) gives a response: res.json() is awaited
FetchResolves ==
    /\ fetching > 0
    /\ fetching' = fetching - 1
    /\ parsing' = parsing + 1
    /\ lastEvent' = "response"
    /\ UNCHANGED <<zoneVars, mapVars, ingestVars, pageVars, started, finished, failed,
                   lastData, lastStrict, renderVars, readVars, sideVars>>

\* await res.json() rejects (the body is no JSON): the catch block
JsonRejects ==
    /\ parsing > 0
    /\ parsing' = parsing - 1
    /\ Install(Catch(CurrentPage))
    /\ finished' = finished + 1
    /\ failed' = failed + 1
    /\ lastEvent' = "json_rejected"
    /\ UNCHANGED <<zoneVars, ingestVars, fetching, started, lastData, lastStrict,
                   renderVars, readVars, sideVars>>

\* await res.json() gives data: the rest of the try block, and the catch
\* block if it raises
JsonResolvesWith(snapshots) ==
    /\ parsing > 0
    /\ \E data \in snapshots :
        \E strict \in (IF Has(data.ais_snapshot)
                          /\ HasMissingPosition(Get(data.ais_snapshot).vessels)
                       THEN BOOLEAN ELSE {FALSE}) :
            \E tried \in {TryBlock(CurrentPage, data, strict)} :
                /\ Install(IF tried.threw THEN Catch(tried) ELSE tried)
                /\ failed' = IF tried.threw THEN failed + 1 ELSE failed
                /\ lastEvent' = IF tried.threw THEN "apply_threw" ELSE "applied"
                /\ lastData' = data
                /\ lastStrict' = strict
    /\ parsing' = parsing - 1
    /\ finished' = finished + 1
    /\ UNCHANGED <<zoneVars, ingestVars, fetching, started, renderVars, readVars, sideVars>>

JsonResolves == JsonResolvesWith(Snapshots)

InitLoadSpec == NoZoneLookup /\ InitMap /\ InitIngest /\ InitPage /\ InitLoad /\ NoRender /\ InitSide

NextLoad ==
    \/ LoadData
    \/ FetchRejects
    \/ FetchResolves
    \/ JsonRejects
    \/ JsonResolves

SpecLoad == InitLoadSpec /\ [][NextLoad]_vars

(***************************************************************************)
(* loadData calls and readers of the registry.  A user event runs between  *)
(* two tasks of the page, never inside one: displayVessels is synchronous. *)
(* The snapshots carry AIS batches only, some with a report lacking its    *)
(* position.                                                               *)
(***************************************************************************)
\* longest AIS batch of these snapshots
MaxReaderBatchLen == 2

ReaderReports ==
    {[mmsi |-> 1, lat |-> 260, lon |-> 1215, type_name |-> "fishing",
      suspicious |-> FALSE, in_drill_zone |-> UndefinedStr],
     [mmsi |-> 2, lat |-> Undefined, lon |-> Undefined, type_name |-> "cargo",
      suspicious |-> FALSE, in_drill_zone |-> UndefinedStr],
     [mmsi |-> 3, lat |-> 240, lon |-> 1212, type_name |-> "tanker",
      suspicious |-> FALSE, in_drill_zone |-> UndefinedStr]}

ReaderSnapshots ==
    {[EmptySnapshot EXCEPT !.ais_snapshot = Some([vessels |-> batch])] :
        batch \in SeqsUpTo(ReaderReports, MaxReaderBatchLen)}

\* the identifiers of the batch whose ingest loadData started last
IngestStartedFor == 
    IF Has(lastData.ais_snapshot)
    THEN {Get(lastData.ais_snapshot).vessels[i].mmsi :
              i \in 1..Len(Get(lastData.ais_snapshot).vessels)}
    ELSE {}

\* App.focusVessel(mmsi): MapModule.focusVessel(mmsi, vessels) reads
\* vessels.get(mmsi) and vesselMarkers[mmsi]
FocusVessel ==
    /\ \E mmsi \in {1, 3} :
           seen' = [read |-> TRUE, mmsi |-> mmsi, keys |-> MapKeys(vessels),
                    batch |-> IngestStartedFor,
                    found |-> MapHas(vessels, mmsi) /\ mmsi \in DOMAIN vesselMarkers]
    /\ UNCHANGED <<zoneVars, mapVars, ingestVars, pageVars, loadVars, renderVars, sideVars>>

InitReaders == NoZoneLookup /\ InitMap /\ InitIngest /\ InitPage /\ InitLoad /\ NoRender /\ InitSide

NextReaders ==
    \/ LoadData
    \/ FetchResolves
    \/ JsonResolvesWith(ReaderSnapshots)
    \/ FocusVessel

SpecReaders == InitReaders /\ [][NextReaders]_vars

(***************************************************************************)
(* renderSparkline on its own: every series of up to MaxDays days whose    *)
(* counts are small, or those of the 80-of-100 scenario.                   *)
(***************************************************************************)
\* largest small count, and longest series
MaxCount == 3
MaxDays == 2

DayCounts == (0..MaxCount) \cup {80, 100}
Days == [dark_vessels : DayCounts, total_detections : DayCounts]

InitSparkline ==
    /\ NoZoneLookup /\ InitMap /\ InitIngest /\ InitPage /\ InitLoad /\ InitSide
    /\ dailyData \in SeqsUpTo(Days, MaxDays)
    /\ sparkline = NoBars
    /\ isoStr = 0 /\ now = 0 /\ ago = NoText
    /\ seen = NotRead

RenderSparkline ==
    /\ ~sparkline.written
    /\ sparkline' = renderSparkline(dailyData)
    /\ UNCHANGED <<zoneVars, mapVars, ingestVars, pageVars, loadVars, readVars,
                   dailyData, isoStr, now, ago, sideVars>>

NextSparkline == RenderSparkline

SpecSparkline == InitSparkline /\ [][NextSparkline]_vars

(***************************************************************************)
(* timeAgo (app.js 186-201).  A timestamp is given by what                 *)
(* new Date(isoStr).getTime() makes of it: milliseconds since the epoch,   *)
(* or NaN for a string that is no date (and for a missing timestamp).      *)
(* Arithmetic on NaN gives NaN and every comparison with NaN is false;     *)
(* nothing in the try block raises, so the catch branch has no way in.     *)
(* The returned text is the pair <<number, template>>.                     *)
(***************************************************************************)
HourMs == 3600000

\* Math.floor(a / b) for b > 0
FloorDiv(a, b) == a \div b

\* hours < n, false when hours is NaN
LessThan(isNaN, hours, n) == ~isNaN /\ hours < n

\* a timeAgo whose hours form still covers a full day
timeAgoDayInclusive(iso, dateNow) ==
    LET isNaN == ~IsNumber(iso)
        diff == IF isNaN THEN 0 ELSE dateNow - iso
        hours == FloorDiv(diff, HourMs)
    IN  IF LessThan(isNaN, hours, 1) THEN <<0, "just_now">>
        ELSE IF LessThan(isNaN, hours, 25) THEN <<hours, "hours_ago">>
        ELSE <<IF isNaN THEN NaN ELSE FloorDiv(hours, 24), "days_ago">>

\* isNaN: getTime() gave NaN, and so diff, hours and days are NaN as well
\* (diff and hours are then never looked at)
timeAgo(iso, dateNow) ==
    LET isNaN == ~IsNumber(iso)
        diff == IF isNaN THEN 0 ELSE dateNow - iso
        hours == FloorDiv(diff, HourMs)
    IN  IF LessThan(isNaN, hours, 1) THEN <<0, "just_now">>
        ELSE IF LessThan(isNaN, hours, 24) THEN <<hours, "hours_ago">>
        ELSE <<IF isNaN THEN NaN ELSE FloorDiv(hours, 24), "days_ago">>

\* clock readings and timestamps lie on a half-hour grid of this many steps
MaxHalfHours == 100

Instants == {k * (HourMs \div 2) : k \in 0..MaxHalfHours}

InitTimeAgo ==
    /\ NoZoneLookup /\ InitMap /\ InitIngest /\ InitPage /\ InitLoad /\ InitSide
    /\ dailyData = <<>> /\ sparkline = NoBars /\ seen = NotRead
    /\ isoStr \in Instants \cup {NaN}
    /\ now \in Instants
    /\ ago = NoText

TimeAgo ==
    /\ ago = NoText
    /\ ago' = timeAgo(isoStr, now)
    /\ UNCHANGED <<zoneVars, mapVars, ingestVars, pageVars, loadVars,
                   dailyData, sparkline, isoStr, now, readVars, sideVars>>

NextTimeAgo == TimeAgo

SpecTimeAgo == InitTimeAgo /\ [][NextTimeAgo]_vars

(***************************************************************************)
(* The two list steps of loadData on their own, on a freshly initialised   *)
(* page: the suspicious step (app.js 304-313) and updateIdentitySection,   *)
(* over lists of every length up to MaxListLen, whose entries all differ.  *)
(* A list member that is missing behaves as the empty list.                *)
(***************************************************************************)
\* longest upstream list
MaxListLen == 11

\* n events, numbered base + 1 .. base + n in upstream order
EventList(n, base) == [i \in 1..n |-> [mmsi |-> base + i, in_drill_zone |-> (i = 1)]]

IdentityInputs ==
    {[EmptySnapshot EXCEPT !.identity_events =
         Some([summary |-> Some([count_24h |-> c, count_7d |-> 2, vessels_7d |-> 2]),
               events_24h |-> EventList(n, 0), events_7d |-> EventList(m, 100)])] :
        n \in 0..MaxListLen, m \in 0..MaxListLen, c \in {0, 1}}

\* n suspicious vessels in upstream order, each with a name of its own,
\* except vessel number unnamed (0: none), which has no name
SuspiciousVessels(n, unnamed) ==
    [i \in 1..n |->
        [mmsi |-> i, names |-> IF i = unnamed THEN <<>> ELSE <<ToString(i)>>,
         risk_level |-> IF i = 1 THEN "critical" ELSE "high",
         last_lat |-> 240 + i, last_lon |-> 1195]]

SuspiciousInputs ==
    {[EmptySnapshot EXCEPT !.suspicious_analysis =
         Some([summary |-> Some([total_analyzed |-> 50, suspicious_count |-> n]),
               suspicious_vessels |-> Some(SuspiciousVessels(n, unnamed))])] :
        n \in 0..MaxListLen, unnamed \in {0, 2, 11}}

\* what a list step leaves when it ends, normally or by an exception
ListStepEnds(st, data) ==
    /\ Install([st EXCEPT !.threw = FALSE])
    /\ lastData' = data
    /\ lastEvent' = IF st.threw THEN "list_threw" ELSE "list_done"
    /\ UNCHANGED <<zoneVars, ingestVars, fetching, parsing, started, finished, failed,
                   lastStrict, renderVars, readVars, sideVars>>

\* if (data.suspicious_analysis) { suspiciousData = ...; updateSuspiciousList(); ... }
SuspiciousStep ==
    /\ lastEvent = "none"
    /\ \E data \in SuspiciousInputs :
           \E st \in {ApplySuspicious(CurrentPage, data)} : ListStepEnds(st, data)

\* updateIdentitySection(data)
IdentityStep ==
    /\ lastEvent = "none"
    /\ \E data \in IdentityInputs :
           \E st \in {ApplyIdentity(CurrentPage, data)} : ListStepEnds(st, data)

InitLists == NoZoneLookup /\ InitMap /\ InitIngest /\ InitPage /\ InitLoad /\ NoRender /\ InitSide

NextLists ==
    \/ SuspiciousStep
    \/ IdentityStep

SpecLists == InitLists /\ [][NextLists]_vars

(***************************************************************************)
(* The service worker's fetch handler (sw.js 44-88), the worker installed  *)
(* and active.  A fetch event is handled in two turns when it goes to the  *)
(* network: the handler up to fetch(event.request), and the continuation   *)
(* when the network answers or fails; cache.put, issued in the             *)
(* continuation, is taken to complete with it.                             *)
(***************************************************************************)
\* fetch events handled, readings of the page's clock, versions of a body
MaxFetchEvents == 3
MaxClock == 2
MaxBodies == 2

\* app.js 275: fetch('data.json?' + Date.now())
DataRequest == [origin |-> "self", name |-> <<"", "data.json">>, query |-> clock]

\* other requests of the page: a precached script, an image that is not
\* precached, a script from another origin
TilePng == [origin |-> "self", name |-> <<"tile", ".png">>, query |-> 0]
LeafletJs == [origin |-> "cdn", name |-> <<"leaflet", ".js">>, query |-> 0]
StaticRequests == {AppJs, TilePng, LeafletJs}

\* what fetch(request) can resolve to: same-origin responses have type basic,
\* those of another origin type cors, or opaque with status 0
NetworkResponses(req) ==
    IF req.origin = "self"
    THEN {[status |-> st, type |-> "basic", body |-> b] : st \in {200, 404}, b \in 1..MaxBodies}
    ELSE {[status |-> 200, type |-> "cors", body |-> b] : b \in 1..MaxBodies}
         \cup {[status |-> 0, type |-> "opaque", body |-> 0]}

\* event.respondWith(...) settles
Answer(n, req, tried, hit, net, resp) ==
    answer' = [n |-> n, req |-> req, tried |-> tried, hit |-> hit, net |-> net, resp |-> resp]

\* a handler that looks into the cache first for every request
HandleFetchCacheFirst(req) ==
    IF req \in DOMAIN cache
    THEN /\ Answer(fetchEvents + 1, req, <<"cache">>, TRUE, "none", CachesMatch(cache, req))
         /\ UNCHANGED inflight
    ELSE /\ inflight' = inflight \cup {[n |-> fetchEvents + 1, req |-> req,
                                         tried |-> <<"cache", "network">>, hit |-> FALSE]}
         /\ UNCHANGED answer

\* the fetch listener up to the first network or cache answer (sw.js 44-74)
HandleFetch(req) ==
    IF EndsWithDataJson(req)
    THEN /\ inflight' = inflight \cup {[n |-> fetchEvents + 1, req |-> req,
                                         tried |-> <<"network">>, hit |-> FALSE]}
         /\ UNCHANGED answer
    ELSE IF CachesMatch(cache, req) # UndefinedResponse
    THEN /\ Answer(fetchEvents + 1, req, <<"cache">>, TRUE, "none", CachesMatch(cache, req))
         /\ UNCHANGED inflight
    ELSE /\ inflight' = inflight \cup {[n |-> fetchEvents + 1, req |-> req,
                                         tried |-> <<"cache", "network">>, hit |-> FALSE]}
         /\ UNCHANGED answer

\* the page's clock moves on
Tick ==
    /\ clock < MaxClock
    /\ clock' = clock + 1
    /\ UNCHANGED <<notSwVars, cache, stored, inflight, answer, fetchEvents>>

FetchEvent ==
    /\ fetchEvents < MaxFetchEvents
    /\ \E req \in {DataRequest} \cup StaticRequests : HandleFetch(req)
    /\ fetchEvents' = fetchEvents + 1
    /\ UNCHANGED <<notSwVars, cache, stored, clock>>

\* fetch(event.request) resolves (sw.js 51-58, 75-85)
NetworkResolves ==
    \E f \in inflight : \E resp \in NetworkResponses(f.req) :
        /\ inflight' = inflight \ {f}
        /\ IF ~EndsWithDataJson(f.req) /\ NotCacheable(resp)
           THEN UNCHANGED <<cache, stored>>
           ELSE /\ cache' = CachePut(cache, f.req, resp)
                /\ stored' = stored \cup {[req |-> f.req, resp |-> resp]}
        /\ Answer(f.n, f.req, f.tried, f.hit, "resolved", resp)
        /\ UNCHANGED <<notSwVars, fetchEvents, clock>>

\* fetch(event.request) rejects (sw.js 59-62; the static branch has no catch)
NetworkRejects ==
    \E f \in inflight :
        /\ inflight' = inflight \ {f}
        /\ IF EndsWithDataJson(f.req)
           THEN Answer(f.n, f.req, Append(f.tried, "cache"), f.req \in DOMAIN cache,
                       "rejected", CachesMatch(cache, f.req))
           ELSE Answer(f.n, f.req, f.tried, f.hit, "rejected", NetworkError)
        /\ UNCHANGED <<notSwVars, cache, stored, fetchEvents, clock>>

InitWorkerSpec ==
    /\ NoZoneLookup /\ InitMap /\ InitIngest /\ InitPage /\ InitLoad /\ NoRender
    /\ InitSide

NextWorker ==
    \/ Tick
    \/ FetchEvent
    \/ NetworkResolves
    \/ NetworkRejects

SpecWorker == InitWorkerSpec /\ [][NextWorker]_vars

(***************************************************************************)
(* Calls of renderDailyChart, renderTrendChart, renderPieChart,            *)
(* destroyChart and destroyAllCharts in any order, on canvases that exist  *)
(* and on an id no element has.                                            *)
(***************************************************************************)
\* Chart instances made in a run
MaxCharts == 4

Canvases == {"dailyChart", "trendChart"}
CanvasIds == Canvases \cup {"missing"}

\* document.getElementById(canvasId) finds a canvas
CanvasExists(canvasId) == canvasId \in Canvases

\* one of the three render functions: return null without a canvas, else
\* destroy the chart registered for the id and register a new one
RenderChart(type) ==
    /\ created < MaxCharts
    /\ \E canvasId \in CanvasIds :
          IF ~CanvasExists(canvasId) THEN UNCHANGED chartVars
          ELSE \E r \in {Render(charts, liveCharts, canvasId,
                                 [serial |-> created + 1, type |-> type, canvas |-> canvasId])} :
                  /\ charts' = r.charts
                  /\ liveCharts' = r.live
                  /\ created' = created + 1
    /\ UNCHANGED notChartVars

renderDailyChart == RenderChart("bar")

renderTrendChart == RenderChart("line")

renderPieChart == RenderChart("doughnut")

\* destroyChart(canvasId)
destroyChart ==
    /\ \E canvasId \in CanvasIds :
          IF HasChart(charts, canvasId)
          THEN /\ liveCharts' = Destroy(liveCharts, charts[canvasId])
               /\ charts' = [k \in DOMAIN charts \ {canvasId} |-> charts[k]]
          ELSE UNCHANGED <<charts, liveCharts>>
    /\ UNCHANGED <<created, notChartVars>>

\* destroyAllCharts()
destroyAllCharts ==
    /\ liveCharts' = liveCharts \ {charts[k] : k \in DOMAIN charts}
    /\ charts' = NoCharts
    /\ UNCHANGED <<created, notChartVars>>

InitChartsSpec ==
    /\ NoZoneLookup /\ InitMap /\ InitIngest /\ InitPage /\ InitLoad /\ NoRender
    /\ InitSide

NextCharts ==
    \/ renderDailyChart
    \/ renderTrendChart
    \/ renderPieChart
    \/ destroyChart
    \/ destroyAllCharts

SpecCharts == InitChartsSpec /\ [][NextCharts]_vars

(***************************************************************************)
(* One run of run_ais_local.sh (under set -euo pipefail) or of             *)
(* run_ais_local.bat, one step per command.  The Python programs and git   *)
(* are outside the repository: their exit values are inputs.               *)
(***************************************************************************)
\* exit values of the Python programs: success, sys.exit(1) or an uncaught
\* exception, sys.exit(-1)
PythonExitValues == {0, 1, 0 - 1}

\* exit values of git add, git commit and git push
GitExitValues == {0, 1, 128}

\* the command has run and the script has seen status
Ran(cmd, status) == ran' = Append(ran, [cmd |-> cmd, status |-> status])

\* python3 src/fetch_ais_data.py; a failure ends the run (exit 1 / goto :end)
RunFetch ==
    /\ pc = "fetch"
    /\ \E value \in PythonExitValues : \E status \in {ExitStatus(script, value)} :
          /\ Ran("fetch", status)
          /\ pc' = IF TakenAsFailed(script, status) THEN "end" ELSE "analyze"
    /\ UNCHANGED <<script, staged, notPipeVars>>

\* python3 src/analyze_suspicious.py; a failure is reported and the run goes on
RunAnalyze ==
    /\ pc = "analyze"
    /\ \E value \in PythonExitValues : Ran("analyze", ExitStatus(script, value))
    /\ pc' = "generate"
    /\ UNCHANGED <<script, staged, notPipeVars>>

\* python3 src/generate_dashboard.py; a failure ends the run
RunGenerate ==
    /\ pc = "generate"
    /\ \E value \in PythonExitValues : \E status \in {ExitStatus(script, value)} :
          /\ Ran("generate", status)
          /\ pc' = IF TakenAsFailed(script, status) THEN "end" ELSE "git_add"
    /\ UNCHANGED <<script, staged, notPipeVars>>

\* git add <the five files>: set -e ends the shell script when it fails, the
\* batch file goes on; a failed add stages nothing
GitAdd ==
    /\ pc = "git_add"
    /\ \E value \in GitExitValues : \E status \in {ExitStatus(script, value)} :
          /\ Ran("git_add", status)
          /\ IF status = 0 THEN staged' \in BOOLEAN ELSE staged' = FALSE
          /\ pc' = IF script = "sh" /\ status # 0 THEN "end" ELSE "git_diff"
    /\ UNCHANGED <<script, notPipeVars>>

\* git diff --cached --quiet: status 1 when the staged diff is non-empty, 0
\* when it is empty
GitDiff ==
    /\ pc = "git_diff"
    /\ \E status \in {IF staged THEN 1 ELSE 0} :
          /\ Ran("git_diff", status)
          /\ pc' = IF TakenAsFailed(script, status) THEN "git_commit" ELSE "end"
    /\ UNCHANGED <<script, staged, notPipeVars>>

\* git commit -m ...: set -e ends the shell script when it fails, the batch
\* file goes on to git push
GitCommit ==
    /\ pc = "git_commit"
    /\ \E value \in GitExitValues : \E status \in {ExitStatus(script, value)} :
          /\ Ran("git_commit", status)
          /\ pc' = IF script = "sh" /\ status # 0 THEN "end" ELSE "git_push"
    /\ UNCHANGED <<script, staged, notPipeVars>>

\* git push
GitPush ==
    /\ pc = "git_push"
    /\ \E value \in GitExitValues : Ran("git_push", ExitStatus(script, value))
    /\ pc' = "end"
    /\ UNCHANGED <<script, staged, notPipeVars>>

InitPipelineSpec ==
    /\ NoZoneLookup /\ InitMap /\ InitIngest /\ InitPage /\ InitLoad /\ NoRender
    /\ InitWorker /\ InitCharts /\ InitLang
    /\ script \in {"sh", "bat"}
    /\ pc = "fetch"
    /\ ran = <<>>
    /\ staged = FALSE

NextPipeline ==
    \/ RunFetch
    \/ RunAnalyze
    \/ RunGenerate
    \/ GitAdd
    \/ GitDiff
    \/ GitCommit
    \/ GitPush

SpecPipeline == InitPipelineSpec /\ [][NextPipeline]_vars

(***************************************************************************)
(* i18n.toggle() and i18n.setLang(lang) in any order, in a browser of any  *)
(* language, with any item saved by an earlier visit.                      *)
(***************************************************************************)
\* toggle and setLang calls in a run
MaxLangCalls == 3

\* values of navigator.language and navigator.userLanguage
LanguageTags == {Absent, Some(<<"zh", "-TW">>), Some(<<"en", "-US">>), Some(<<"ja", "">>),
                 Some(<<"", "">>)}

\* arguments of setLang: the two languages of the dictionary and another one
LangArguments == {"zh", "en", "fr"}

\* i18n.toggle()
Toggle ==
    /\ langCalls < MaxLangCalls
    /\ currentLang' = IF currentLang = "zh" THEN "en" ELSE "zh"
    /\ storedLang' = currentLang'
    /\ langCalls' = langCalls + 1
    /\ UNCHANGED <<navigatorLang, notLangVars>>

\* i18n.setLang(lang)
SetLang ==
    /\ langCalls < MaxLangCalls
    /\ \E lang \in LangArguments :
          /\ currentLang' = lang
          /\ storedLang' = lang
    /\ langCalls' = langCalls + 1
    /\ UNCHANGED <<navigatorLang, notLangVars>>

\* the module loaded: currentLang = detectLanguage()
InitLangSpec ==
    /\ NoZoneLookup /\ InitMap /\ InitIngest /\ InitPage /\ InitLoad /\ NoRender
    /\ InitWorker /\ InitCharts /\ InitPipeline
    /\ navigatorLang \in [language : LanguageTags, userLanguage : LanguageTags]
    /\ storedLang \in {NoItem} \cup LangArguments
    /\ currentLang = detectLanguage(storedLang, navigatorLang)
    /\ langCalls = 0

NextLang ==
    \/ Toggle
    \/ SetLang

SpecLang == InitLangSpec /\ [][NextLang]_vars

(***************************************************************************)
(* Properties of the zone lookup (SpecZone)                                *)
(***************************************************************************)
\* the rectangle of zone z read off all four corners of its polygon
RefLats(z) == {DRILL_ZONES[z].coords[i][1] : i \in 1..4}
RefLons(z) == {DRILL_ZONES[z].coords[i][2] : i \in 1..4}
RefContains(z, la, lo) ==
    /\ la # Undefined /\ lo # Undefined
    /\ \A a \in RefLats(z) : \E b \in RefLats(z) : (a <= la /\ la <= b) \/ (b <= la /\ la <= a)
    /\ \A a \in RefLons(z) : \E b \in RefLons(z) : (a <= lo /\ lo <= b) \/ (b <= lo /\ lo <= a)
RefStrictlyInside(z, la, lo) ==
    /\ la # Undefined /\ lo # Undefined
    /\ \E a, b \in RefLats(z) : a < la /\ la < b
    /\ \E a, b \in RefLons(z) : a < lo /\ lo < b
RefHits(la, lo) == {i \in 1..Len(ZoneOrder) : RefContains(ZoneOrder[i], la, lo)}

\* C1: getZoneForPosition returns the first zone, in the order north, east,
\* south, west, whose rectangle contains the point, and null when none does;
\* a point strictly inside exactly one rectangle gets that zone, a point
\* outside all four gets null.
C1_FirstContainingZone ==
    zone # Unset =>
        /\ RefHits(lat, lon) = {} => zone = Null
        /\ RefHits(lat, lon) # {} =>
               \E i \in RefHits(lat, lon) :
                   zone = ZoneOrder[i] /\ \A j \in RefHits(lat, lon) : i <= j
        /\ \A z \in Zones :
               (RefStrictlyInside(z, lat, lon)
                    /\ \A y \in Zones \ {z} : ~RefContains(y, lat, lon)) => zone = z

\* C1 witness: a looked-up point that two rectangles contain, given to the first
C1_Witness_FirstOfTwo ==
    zone = "north" /\ Cardinality(RefHits(lat, lon)) = 2

\* the zones whose membership test, as getZoneForPosition applies it, the point passes
ZonesPassingTest(la, lo) == {z \in Zones : InBoundingBox(DRILL_ZONES[z], la, lo)}

\* C10 (as claimed): the closed bounding-box test of getZoneForPosition is
\* passed by at most one of the four zones, for every point.
C10_AtMostOneZone ==
    zone # Unset => Cardinality(ZonesPassingTest(lat, lon)) <= 1

\* C10 (amended): at most one zone passes the test for every point except the
\* corner (25.5, 122.5), which north and east share and which goes to north.
C10_AtMostOneZoneExceptSharedCorner ==
    zone # Unset =>
        \/ Cardinality(ZonesPassingTest(lat, lon)) <= 1
        \/ /\ lat = 255 /\ lon = 1225
           /\ ZonesPassingTest(lat, lon) = {"north", "east"}
           /\ zone = "north"

\* C10 witness: a looked-up point on the edge of east next to the shared corner
C10_Witness_EdgeOfEast ==
    zone = "east" /\ lat = 255 /\ lon = 1226 /\ ZonesPassingTest(lat, lon) = {"east"}

(***************************************************************************)
(* Properties of one displayVessels call (SpecBatch)                       *)
(***************************************************************************)
\* the report of the scenario: {mmsi: 1, lat: 24.0, lon: 121.2, type_name: "fishing"}
ScenarioReport ==
    [mmsi |-> 1, lat |-> 240, lon |-> 1212, type_name |-> "fishing",
     suspicious |-> FALSE, in_drill_zone |-> UndefinedStr]

IngestedScenario == calls = 1 /\ lastBatch = <<ScenarioReport>> /\ ~result.threw

\* C2 (as claimed): ingesting the scenario report alone yields total 1,
\* fishing 1, inZone 1 and zoneCounts.north 1.
C2_ScenarioInNorth ==
    IngestedScenario =>
        /\ result.stats.total = 1 /\ result.stats.fishing = 1
        /\ result.stats.inZone = 1 /\ result.zoneCounts.north = 1

\* C2 (amended): ingesting the scenario report alone yields total 1, fishing 1,
\* and, the point (24.0, 121.2) lying in no drill zone, inZone 0 and a count
\* of 0 for north and for every other zone.
C2_ScenarioInNoZone ==
    IngestedScenario =>
        /\ result.stats.total = 1 /\ result.stats.fishing = 1
        /\ result.stats.inZone = 0
        /\ \A z \in Zones : result.zoneCounts[z] = 0

\* C2 witness: the scenario report has been ingested and registered
C2_Witness_ScenarioIngested ==
    IngestedScenario /\ MapKeys(vessels) = {1}

WellFormed(v) == v.mmsi # Undefined /\ v.lat # Undefined /\ v.lon # Undefined
BatchIndices == 1..Len(lastBatch)

\* C3 (as claimed): a report lacking its mmsi, lat or lon is skipped (nothing
\* counted, nothing registered) and the other reports of the batch are processed.
C3_MalformedSkipped ==
    calls = 1 =>
        /\ ~result.threw
        /\ result.stats.total = Cardinality({i \in BatchIndices : WellFormed(lastBatch[i])})
        /\ MapKeys(vessels) = {lastBatch[i].mmsi : i \in {j \in BatchIndices : WellFormed(lastBatch[j])}}

\* the zone the claim gives a report: its tag when present, else the lookup
RefZoneOfReport(v) ==
    IF v.in_drill_zone # UndefinedStr THEN v.in_drill_zone
    ELSE getZoneForPosition(v.lat, v.lon)

\* C9: the returned stats and zoneCounts are the reference fold of the batch:
\* total counts every report, fishing/cargo/tanker the reports of exactly that
\* type, suspicious the flagged ones, inZone the reports with a zone (tag when
\* present, else lookup), and each zone's count the reports of that zone.
C9_ReferenceFold ==
    (calls = 1 /\ ~result.threw) =>
        /\ result.stats.total = Len(lastBatch)
        /\ \A t \in {"fishing", "cargo", "tanker"} :
               result.stats[t] = Cardinality({i \in BatchIndices : lastBatch[i].type_name = t})
        /\ result.stats.suspicious = Cardinality({i \in BatchIndices : lastBatch[i].suspicious})
        /\ result.stats.inZone =
               Cardinality({i \in BatchIndices : RefZoneOfReport(lastBatch[i]) # Null})
        /\ \A z \in Zones :
               result.zoneCounts[z] =
                   Cardinality({i \in BatchIndices : RefZoneOfReport(lastBatch[i]) = z})

\* C9 witness: a returned batch of two reports, one tagged, one located by
\* lookup, one of an untracked type, one flagged
C9_Witness_MixedBatch ==
    /\ calls = 1 /\ ~result.threw /\ Len(lastBatch) = 2
    /\ lastBatch[1].in_drill_zone = "south" /\ lastBatch[1].type_name = "other"
    /\ lastBatch[2].in_drill_zone = UndefinedStr /\ lastBatch[2].suspicious
    /\ result.zoneCounts.south = 1 /\ result.zoneCounts.north = 1
    /\ result.stats.inZone = 2

(***************************************************************************)
(* Properties of repeated displayVessels calls (SpecRegistry)              *)
(***************************************************************************)
\* C7: a call given the batch of the call before it, on the registry that
\* call left, returns the same stats and zoneCounts and leaves the registry
\* with the same entries.
C7_ReingestIdempotent ==
    [][(calls >= 1 /\ calls' = calls + 1 /\ lastBatch' = lastBatch)
          => (result' = result /\ vessels' = vessels)]_vars

\* C7 witness: a batch of two vessels ingested twice in a row
C7_Witness_SameBatchTwice ==
    /\ repeated /\ Len(lastBatch) = 2 /\ ~result.threw
    /\ MapKeys(vessels) = {1, 2} /\ Len(vessels) = 2

BatchIds(b) == {b[i].mmsi : i \in 1..Len(b)}
LastReportOf(b, k) ==
    b[CHOOSE i \in 1..Len(b) : b[i].mmsi = k /\ \A j \in (i + 1)..Len(b) : b[j].mmsi # k]

\* C8: each call returns the stats and zoneCounts of its own batch alone
\* (those of that batch ingested into an empty registry); the registry gains
\* the batch's identifiers, holds for each the last report of the batch, and
\* keeps every other entry as it was.
C8_BatchResultCumulativeRegistry ==
    [][calls' = calls + 1 =>
          /\ result' = Returned(displayVessels(lastBatch', <<>>, FALSE))
          /\ MapKeys(vessels') = MapKeys(vessels) \cup BatchIds(lastBatch')
          /\ Len(vessels') = Cardinality(MapKeys(vessels'))
          /\ \A k \in BatchIds(lastBatch') : MapGet(vessels', k) = LastReportOf(lastBatch', k)
          /\ \A k \in MapKeys(vessels) \ BatchIds(lastBatch') :
                 MapGet(vessels', k) = MapGet(vessels, k)]_vars

\* C8 witness: after two calls the registry still holds a vessel that the
\* last batch does not mention, next to one it does
C8_Witness_RetainedAndOverwritten ==
    /\ calls = 2 /\ Len(lastBatch) = 1 /\ result.stats.total = 1
    /\ MapKeys(vessels) = {1, 2} /\ BatchIds(lastBatch) = {2}

(***************************************************************************)
(* Properties of loadData (SpecLoad)                                       *)
(***************************************************************************)
\* a step in which a loadData call ends in its catch block
LoadFails == finished' = finished + 1 /\ failed' = failed + 1

\* C4 (as claimed): a load that ends with the "load failed" status, whatever
\* raised the error, has applied nothing: GFW statistics, zone counts,
\* suspicious list and count, identity section, registry and markers are as
\* they were.
C4_FailedLoadAppliesNothing ==
    [][LoadFails =>
          /\ dom'.dataStatus.text = "error_load"
          /\ dom'.gfwSection = dom.gfwSection
          /\ dom'.gfwDarkVessels = dom.gfwDarkVessels
          /\ dom'.gfwDrillRecords = dom.gfwDrillRecords
          /\ dom'.gfwDataDays = dom.gfwDataDays
          /\ dom'.zone = dom.zone
          /\ dom'.suspiciousList = dom.suspiciousList
          /\ dom'.suspiciousCount = dom.suspiciousCount
          /\ suspiciousData' = suspiciousData
          /\ dom'.identitySection = dom.identitySection
          /\ dom'.identityList = dom.identityList
          /\ vessels' = vessels
          /\ layerVessels' = layerVessels
          /\ vesselMarkers' = vesselMarkers]_vars

View(d) ==
    [dataStatus |-> d.dataStatus,
     statTotal |-> d.statTotal, statFishing |-> d.statFishing,
     statCargo |-> d.statCargo, statTanker |-> d.statTanker,
     zone |-> d.zone,
     suspiciousList |-> d.suspiciousList, suspiciousCount |-> d.suspiciousCount,
     identity24h |-> d.identity24h, identity7d |-> d.identity7d,
     identityVessels7d |-> d.identityVessels7d, identityList |-> d.identityList]

\* the page after loading data into a freshly initialised page
FreshLoad(data, strict) ==
    TryBlock(PageState(<<>>, Absent, <<>>, <<>>, InitDom), data, strict)

\* C6 (as claimed): after any sequence of successful loads, the displayed
\* view (status, AIS statistics, zone counts, suspicious list and count,
\* identity counters and list) is the view of the last snapshot loaded into
\* a fresh page.
C6_ViewOfLastSnapshotOnly ==
    (finished >= 1 /\ failed = 0) =>
        View(dom) = View(FreshLoad(lastData, lastStrict).dom)

\* the status loadData's last branch sets for a snapshot (app.js 319-342)
RefStatus(data) ==
    IF Has(data.ais_snapshot) /\ Get(data.ais_snapshot).vessels # <<>>
    THEN [text |-> "ais_sat_loaded", live |-> TRUE]
    ELSE IF Has(data.vessel_monitoring)
    THEN [text |-> "sat_loaded", live |-> TRUE]
    ELSE [text |-> "no_data", live |-> FALSE]

\* a step in which a loadData call ends without reaching its catch block
LoadSucceeds == finished' = finished + 1 /\ failed' = failed

\* C11: a successful load sets the status by priority: non-empty
\* ais_snapshot.vessels gives "AIS + satellite loaded", otherwise a present
\* vessel_monitoring gives "satellite loaded", otherwise "no data"; only the
\* first two are live.
C11_StatusByPriority ==
    [][LoadSucceeds =>
          /\ dom'.dataStatus = RefStatus(lastData')
          /\ dom'.dataStatus.live <=> dom'.dataStatus.text \in {"ais_sat_loaded", "sat_loaded"}]_vars

\* C11 witness: a load of a snapshot whose ais_snapshot has an empty vessel
\* list and whose vessel_monitoring is present ended as "satellite loaded",
\* after a load that had ended as "AIS + satellite loaded"
C11_Witness_SatelliteAfterAis ==
    /\ finished = 2 /\ failed = 0 /\ lastEvent = "applied"
    /\ Has(lastData.ais_snapshot) /\ Get(lastData.ais_snapshot).vessels = <<>>
    /\ Has(lastData.vessel_monitoring)
    /\ dom.dataStatus = [text |-> "sat_loaded", live |-> TRUE]
    /\ dom.statTotal = Text(1)

\* the three optional sections, and a snapshot with one of them taken out
OptionalSections == {"dark_vessels", "suspicious_analysis", "identity_events"}
Without(data, section) == [data EXCEPT ![section] = Absent]

\* a step in which a loadData call runs on its parsed snapshot
LoadApplies == finished' = finished + 1 /\ lastEvent' \in {"applied", "apply_threw"}

DarkMarkersOn(layer) == {i \in 1..Len(layer) : layer[i].kind = "dark"}

\* C12: a snapshot lacking any of dark_vessels, suspicious_analysis,
\* identity_events loads without error on that account (taking a section out
\* of a snapshot that loads never makes the load fail; one section at a
\* time, the set of snapshots being closed under it), and nothing of a
\* missing section is updated (the suspicious-count card is written by the
\* suspicious step, and by the satellite-only cards from dark_vessels.overall).
C12_MissingSectionsLoad ==
    [][LoadApplies =>
          /\ lastEvent' = "applied" =>
                 \A section \in {o \in OptionalSections : Has(lastData'[o])} :
                     ~TryBlock(CurrentPage, Without(lastData', section), lastStrict').threw
          /\ (\A section \in OptionalSections : ~Has(lastData'[section])) =>
                 (lastEvent' = "apply_threw" =>
                      Has(lastData'.vessel_monitoring)
                          /\ ~Has(Get(lastData'.vessel_monitoring).summary))
          /\ ~Has(lastData'.suspicious_analysis) =>
                 /\ suspiciousData' = suspiciousData
                 /\ dom'.suspiciousList = dom.suspiciousList
                 /\ \/ dom'.suspiciousCount = dom.suspiciousCount
                    \/ /\ dom'.dataStatus.text = "sat_loaded"
                       /\ Has(lastData'.dark_vessels)
                       /\ dom'.suspiciousCount =
                              formatCompact(Get(Get(lastData'.dark_vessels).overall).dark_vessels)
          /\ ~Has(lastData'.identity_events) =>
                 /\ dom'.identitySection = dom.identitySection
                 /\ dom'.identity24h = dom.identity24h
                 /\ dom'.identity7d = dom.identity7d
                 /\ dom'.identityVessels7d = dom.identityVessels7d
                 /\ dom'.identityList = dom.identityList
          /\ ~Has(lastData'.dark_vessels) =>
                 /\ Cardinality(DarkMarkersOn(layerVessels'))
                        <= Cardinality(DarkMarkersOn(layerVessels))
                 /\ dom'.dataStatus.text # "ais_sat_loaded" => dom'.zone = dom.zone]_vars

\* C12 witness: after a load that filled all three sections, a snapshot
\* lacking all three has loaded, the sections left as they were
C12_Witness_AllThreeMissing ==
    /\ finished = 2 /\ failed = 0 /\ lastEvent = "applied"
    /\ \A section \in OptionalSections : ~Has(lastData[section])
    /\ Has(suspiciousData) /\ dom.identitySection /\ DarkMarkersOn(layerVessels) # {}
    /\ dom.dataStatus.text = "sat_loaded"

\* C14 (as claimed): refreshes are serialized: at no time are two loadData
\* calls in flight (waiting on fetch() or on res.json()).
C14_OneLoadInFlight ==
    fetching + parsing <= 1

\* a suspicious_analysis with no vessel and a positive total_analyzed
AnalyzedNoneFlagged(data) ==
    /\ Has(data.suspicious_analysis)
    /\ ~Has(Get(data.suspicious_analysis).suspicious_vessels)
           \/ Get(Get(data.suspicious_analysis).suspicious_vessels) = <<>>
    /\ Has(Get(data.suspicious_analysis).summary)
    /\ Get(Get(data.suspicious_analysis).summary).total_analyzed > 0

\* C19 (as claimed): a loaded snapshot whose suspicious_analysis has an empty
\* vessel list and total_analyzed > 0 shows the "analyzed, none flagged"
\* message with that total; a loaded snapshot without suspicious_analysis
\* does not show the message.
C19_AnalyzedDistinctFromAbsent ==
    [][LoadSucceeds =>
          /\ AnalyzedNoneFlagged(lastData') =>
                 /\ dom'.suspiciousList.kind = "analyzed"
                 /\ dom'.suspiciousList.analyzed =
                        Get(Get(lastData'.suspicious_analysis).summary).total_analyzed
          /\ ~Has(lastData'.suspicious_analysis) =>
                 dom'.suspiciousList.kind # "analyzed"]_vars

(***************************************************************************)
(* Properties of the readers of the registry (SpecReaders)                 *)
(***************************************************************************)
\* C13 (as claimed): a read of the registry finds it either as it was before
\* an ingest or with that ingest complete: every identifier of the batch
\* whose ingest started last is in the registry the reader finds.
C13_NoPartialRegistryRead ==
    seen.read => seen.batch \subseteq seen.keys

(***************************************************************************)
(* Properties of renderSparkline (SpecSparkline)                           *)
(***************************************************************************)
BarIndices == 1..Len(sparkline.bars)
\* the ratio of day i as a quotient with a positive denominator
RatioDefined(i) == sparkline.bars[i].darkRatio[2] > 0
RatioAtLeast0(i) == sparkline.bars[i].darkRatio[1] >= 0
RatioAtMost1(i) == sparkline.bars[i].darkRatio[1] <= sparkline.bars[i].darkRatio[2]

\* C15 (as claimed): the ratio of every day is defined and lies in [0, 1],
\* whatever the day's counts.
C15_RatioInUnitInterval ==
    sparkline.written =>
        \A i \in BarIndices : RatioDefined(i) /\ RatioAtLeast0(i) /\ RatioAtMost1(i)

\* C15 (amended): the ratio of every day is defined (its denominator is at
\* least 1, also for total_detections = 0) and not negative; it is at most 1
\* when dark_vessels <= total_detections, and in general exactly when
\* dark_vessels <= max(1, total_detections).
C15_RatioDefinedAndBoundedByCounts ==
    sparkline.written =>
        \A i \in BarIndices :
            /\ RatioDefined(i) /\ RatioAtLeast0(i)
            /\ sparkline.bars[i].darkRatio[2] >= 1
            /\ dailyData[i].dark_vessels <= dailyData[i].total_detections => RatioAtMost1(i)
            /\ RatioAtMost1(i) <=>
                   (dailyData[i].dark_vessels <= dailyData[i].total_detections
                        \/ dailyData[i].dark_vessels <= 1)

\* C15 witness: a series with a day of no detection at all (ratio 0) and a
\* day of one dark vessel and no detection (ratio 1)
C15_Witness_ZeroDetections ==
    /\ sparkline.written /\ Len(dailyData) = 2
    /\ dailyData[1] = [dark_vessels |-> 0, total_detections |-> 0]
    /\ sparkline.bars[1].darkRatio = <<0, 1>>
    /\ dailyData[2] = [dark_vessels |-> 1, total_detections |-> 0]
    /\ sparkline.bars[2].darkRatio = <<1, 1>>

\* the band of a day from its counts: 10 * dark against 8 and 5 times the
\* denominator max(1, total)
RefBand(d) ==
    LET den == IF d.total_detections >= 1 THEN d.total_detections ELSE 1
    IN  IF 10 * d.dark_vessels > 8 * den THEN "accent-red"
        ELSE IF 10 * d.dark_vessels > 5 * den THEN "accent-orange"
        ELSE "accent-cyan"

\* C16: every day falls in exactly one band by strict thresholds: ratio > 0.8
\* high (red), 0.5 < ratio <= 0.8 medium (orange), ratio <= 0.5 low (cyan);
\* 80 dark vessels of 100 detections is medium.
C16_BandsByStrictThresholds ==
    sparkline.written =>
        \A i \in BarIndices :
            /\ sparkline.bars[i].color = RefBand(dailyData[i])
            /\ dailyData[i] = [dark_vessels |-> 80, total_detections |-> 100]
                   => sparkline.bars[i].color = "accent-orange"

\* C16 witness: the 80-of-100 day drawn medium next to a day drawn high
C16_Witness_EightyOfHundred ==
    /\ sparkline.written /\ Len(dailyData) = 2
    /\ dailyData[1] = [dark_vessels |-> 80, total_detections |-> 100]
    /\ sparkline.bars[1].color = "accent-orange"
    /\ dailyData[2] = [dark_vessels |-> 100, total_detections |-> 100]
    /\ sparkline.bars[2].color = "accent-red"

(***************************************************************************)
(* Properties of the two lists (SpecLists)                                 *)
(***************************************************************************)
\* seq is the first min(Len(upstream), n) entries of upstream, in order
IsPrefixOfLength(seq, upstream, n) ==
    /\ Len(seq) = (IF Len(upstream) <= n THEN Len(upstream) ELSE n)
    /\ \A i \in 1..Len(seq) : seq[i] = upstream[i]

\* C17: the identity list has at most 10 entries; when updateIdentitySection
\* renders it, it is the first 10 entries, in upstream order, of events_24h
\* if that has any entry, and of events_7d only when events_24h has none.
C17_IdentityListFirstTen ==
    Has(lastData.identity_events) =>
        LET idData == Get(lastData.identity_events)
            rendered == Get(idData.summary).count_24h # 0 \/ Get(idData.summary).count_7d # 0
        IN  /\ Len(dom.identityList) <= 10
            /\ (rendered /\ idData.events_24h # <<>>) =>
                   IsPrefixOfLength(dom.identityList, idData.events_24h, 10)
            /\ (rendered /\ idData.events_24h = <<>> /\ idData.events_7d # <<>>) =>
                   IsPrefixOfLength(dom.identityList, idData.events_7d, 10)

\* C17 witness: eleven events of the last 24 hours and eleven of the last 7
\* days given, the first ten of the 24-hour list shown
C17_Witness_ElevenOfEach ==
    /\ lastEvent = "list_done" /\ Has(lastData.identity_events)
    /\ Len(Get(lastData.identity_events).events_24h) = 11
    /\ Len(Get(lastData.identity_events).events_7d) = 11
    /\ Len(dom.identityList) = 10
    /\ dom.identityList[10].mmsi = 10

\* the entry updateSuspiciousList writes for a vessel
ShownAs(item, sv) ==
    /\ item.name = sv.names[1]
    /\ item.risk_level = sv.risk_level
    /\ item.last_lat = sv.last_lat /\ item.last_lon = sv.last_lon

\* C18: the suspicious list updateSuspiciousList renders is the prefix of
\* length min(n, 10) of suspicious_vessels: entry i shows vessel i.
C18_SuspiciousListIsPrefix ==
    (Has(lastData.suspicious_analysis) /\ lastEvent = "list_done") =>
        LET upstream == Get(Get(lastData.suspicious_analysis).suspicious_vessels)
            items == dom.suspiciousList.items
        IN  /\ Len(items) = (IF Len(upstream) <= 10 THEN Len(upstream) ELSE 10)
            /\ \A i \in 1..Len(items) : ShownAs(items[i], upstream[i])
            /\ Len(upstream) > 0 => dom.suspiciousList.kind = "items"

\* C18 witness: eleven vessels given, the first ten shown
C18_Witness_ElevenVessels ==
    /\ lastEvent = "list_done" /\ Has(lastData.suspicious_analysis)
    /\ Len(Get(Get(lastData.suspicious_analysis).suspicious_vessels)) = 11
    /\ Len(dom.suspiciousList.items) = 10
    /\ dom.suspiciousList.items[10].name = "10"

(***************************************************************************)
(* Properties of timeAgo (SpecTimeAgo)                                     *)
(***************************************************************************)
\* C20: for a timestamp that does not parse to a date, timeAgo returns the
\* placeholder "--".
C20_MalformedGivesPlaceholder ==
    (ago # NoText /\ ~IsNumber(isoStr)) => ago = Placeholder

\* n is the number of whole units of length unit in the span elapsed
WholeUnits(n, unit, elapsed) == n * unit <= elapsed /\ elapsed < (n + 1) * unit

\* C21: for a valid timestamp t, with h the whole hours elapsed between t and
\* now, timeAgo returns "just now" when h < 1, the hours form with h when
\* 1 <= h < 24, and the days form with the whole days elapsed when h >= 24;
\* exactly one of the three cases applies.
C21_ThreeForms ==
    (ago # NoText /\ IsNumber(isoStr)) =>
        LET elapsed == now - isoStr
            justNow == elapsed < HourMs
            inHours == HourMs <= elapsed /\ elapsed < 24 * HourMs
            inDays == 24 * HourMs <= elapsed
        IN  /\ justNow => ago = <<0, "just_now">>
            /\ inHours => ago[2] = "hours_ago" /\ WholeUnits(ago[1], HourMs, elapsed)
            /\ inDays => ago[2] = "days_ago" /\ WholeUnits(ago[1], 24 * HourMs, elapsed)
            /\ (justNow \/ inHours \/ inDays)
            /\ ~(justNow /\ inHours) /\ ~(inHours /\ inDays) /\ ~(justNow /\ inDays)

\* C21 witness: exactly 24 hours elapsed, reported as one day
C21_Witness_ExactlyOneDay ==
    /\ IsNumber(isoStr) /\ now - isoStr = 24 * HourMs
    /\ ago = <<1, "days_ago">>

(***************************************************************************)
(* Properties of the service worker (SpecWorker)                           *)
(***************************************************************************)
\* the data.json responses the cache holds
CachedDataJson == {cache[r] : r \in {q \in DOMAIN cache : EndsWithDataJson(q)}}

\* C22: when the network fails for a data.json request of the page and an
\* earlier data.json response has been cached, the worker answers with a
\* cached data.json response.
C22_OfflineFallback ==
    [][(answer'.n # answer.n /\ EndsWithDataJson(answer'.req) /\ answer'.net = "rejected"
        /\ CachedDataJson # {})
       => answer'.resp \in CachedDataJson]_vars

\* C26: a data.json request goes to the network first and to the cache only
\* after the network fetch rejected; any other request goes to the cache
\* first and to the network only after a miss.
C26_Routing ==
    /\ \A f \in inflight :
          IF EndsWithDataJson(f.req) THEN f.tried = <<"network">>
          ELSE f.tried = <<"cache", "network">> /\ ~f.hit
    /\ answer.n > 0 =>
          IF EndsWithDataJson(answer.req)
          THEN \/ answer.tried = <<"network">> /\ answer.net = "resolved"
               \/ answer.tried = <<"network", "cache">> /\ answer.net = "rejected"
          ELSE \/ answer.tried = <<"cache">> /\ answer.hit /\ answer.net = "none"
               \/ answer.tried = <<"cache", "network">> /\ ~answer.hit /\ answer.net # "none"

\* C26 witness: a precached script answered from the cache after a data.json
\* request was left waiting on the network
C26_Witness_BothRoutes ==
    /\ answer.req = AppJs /\ answer.tried = <<"cache">>
    /\ \E f \in inflight : EndsWithDataJson(f.req)

\* C27: every response the fetch handler has put into the cache has status
\* 200 and type basic.
C27_OnlySuccessfulStored ==
    \A e \in stored : e.resp.status = 200 /\ e.resp.type = "basic"

(***************************************************************************)
(* Shape of the zone counts (SpecBatch)                                    *)
(***************************************************************************)
\* C25: displayVessels returns zoneCounts with exactly the keys north, east,
\* south, west, each a natural number, and stats.inZone is their sum and at
\* most stats.total, whatever the tags of the reports.
C25_ZoneCountsShape ==
    (calls = 1 /\ ~result.threw) =>
        /\ DOMAIN result.zoneCounts = Zones
        /\ \A z \in DOMAIN result.zoneCounts : result.zoneCounts[z] \in Nat
        /\ result.stats.inZone =
               result.zoneCounts.north + result.zoneCounts.east
               + result.zoneCounts.south + result.zoneCounts.west
        /\ result.stats.inZone <= result.stats.total

(***************************************************************************)
(* Markers on the vessels layer after a load (SpecLoad)                    *)
(***************************************************************************)
MarkersOfKind(layer, kind) == {i \in 1..Len(layer) : layer[i].kind = kind}

\* the snapshot has a positioned dark-vessel detail record, a positioned
\* suspicious vessel and a non-empty ais_snapshot.vessels
HasAllThreeKinds(data) ==
    /\ Has(data.dark_vessels) /\ Has(Get(data.dark_vessels).regions)
    /\ RegionMarkers(Get(Get(data.dark_vessels).regions), 1) # <<>>
    /\ Has(data.suspicious_analysis) /\ Has(Get(data.suspicious_analysis).suspicious_vessels)
    /\ SuspiciousMarkers(Get(Get(data.suspicious_analysis).suspicious_vessels), 1) # <<>>
    /\ Has(data.ais_snapshot) /\ Get(data.ais_snapshot).vessels # <<>>

\* C23: after a successful load of a snapshot with positioned dark-vessel
\* records, positioned suspicious vessels and AIS vessels, the vessels layer
\* holds dark-vessel markers and suspicious-vessel markers as well as the
\* AIS vessel markers.
C23_AllMarkerKindsShown ==
    [][(LoadSucceeds /\ lastEvent' = "applied" /\ HasAllThreeKinds(lastData')) =>
          /\ MarkersOfKind(layerVessels', "vessel") # {}
          /\ MarkersOfKind(layerVessels', "dark") # {}
          /\ MarkersOfKind(layerVessels', "suspicious") # {}]_vars

\* C24: a successful load of the snapshot that the load before it applied
\* leaves the vessels layer with the markers it had (no load having failed).
C24_RefreshIdempotentOnLayer ==
    [][(LoadSucceeds /\ lastEvent' = "applied" /\ finished >= 1 /\ failed = 0
        /\ lastData' = lastData) =>
          layerVessels' = layerVessels]_vars

(***************************************************************************)
(* Properties of the chart registry (SpecCharts)                           *)
(***************************************************************************)
RegisteredCharts == {charts[k] : k \in DOMAIN charts}

\* C28: the chart instances created and not destroyed are exactly the values
\* of the charts registry, one per canvas id, each registered under its own
\* canvas; and a render on an id that has a chart destroys that chart and
\* registers a new one.
C28_RegistryIsLiveCharts ==
    /\ [](/\ liveCharts = RegisteredCharts
          /\ Cardinality(liveCharts) = Cardinality(DOMAIN charts)
          /\ \A k \in DOMAIN charts : charts[k].canvas = k)
    /\ [][\A k \in DOMAIN charts :
            (k \in DOMAIN charts' /\ charts'[k] # charts[k]) =>
                /\ charts[k] \notin liveCharts'
                /\ charts'[k] \in liveCharts'
                /\ charts'[k].serial = created + 1]_vars

\* C28 witness: a canvas on its second chart, of another type than the first,
\* and the first no longer alive
C28_Witness_Rerendered ==
    /\ created = 2 /\ "dailyChart" \in DOMAIN charts
    /\ charts["dailyChart"].serial = 2 /\ charts["dailyChart"].type = "line"
    /\ Cardinality(liveCharts) = 1

(***************************************************************************)
(* Properties of the pipeline scripts (SpecPipeline)                       *)
(***************************************************************************)
PipelineOrder == <<"fetch", "analyze", "generate", "git_add", "git_diff", "git_commit", "git_push">>

PositionOf(cmd) == CHOOSE i \in 1..Len(PipelineOrder) : PipelineOrder[i] = cmd

HasRun(cmd) == \E i \in 1..Len(ran) : ran[i].cmd = cmd

\* the command has run and ended with a status other than 0
HasFailed(cmd) == \E i \in 1..Len(ran) : ran[i].cmd = cmd /\ ran[i].status # 0

\* C29: commit and push are not reached when fetch_ais_data or
\* generate_dashboard failed; the commands run in the order fetch, analyze,
\* generate, git; a failure of analyze_suspicious alone stops neither
\* generate_dashboard nor the git step; commit and push run only on a
\* non-empty staged diff.
C29_PipelineGuards ==
    /\ (HasRun("git_commit") \/ HasRun("git_push")) =>
           ~HasFailed("fetch") /\ ~HasFailed("generate")
    /\ \A i, j \in 1..Len(ran) :
           i < j => PositionOf(ran[i].cmd) < PositionOf(ran[j].cmd)
    /\ (pc = "end" /\ HasRun("analyze")) => HasRun("generate")
    /\ (pc = "end" /\ HasRun("generate") /\ ~HasFailed("generate")) => HasRun("git_add")
    /\ (HasRun("git_commit") \/ HasRun("git_push")) => staged

(***************************************************************************)
(* Properties of the language preference (SpecLang)                        *)
(***************************************************************************)
\* C30: after any toggle and setLang calls, the item saved under 'lang' is
\* the current language, and detecting the language again gives the
\* current language.
C30_LanguageRoundTrip ==
    langCalls > 0 =>
        /\ storedLang = currentLang
        /\ detectLanguage(storedLang, navigatorLang) = currentLang

=============================================================================
